---- MODULE Spec2Model ----
(***************************************************************************)
(* Engine API server (EngineServer): NewPayload, ForkchoiceUpdated and     *)
(* GetPayload as concurrent requests against the server mutex, the         *)
(* importer's request queue and single-slot reply channel, the builder     *)
(* registry, the status classifier and the envelope checks of newPayload.  *)
(*                                                                         *)
(* Optional values (Go nil-able pointers and slices) are sequences of      *)
(* length at most one: <<>> is nil and <<v>> is a present value v.         *)
(***************************************************************************)
EXTENDS Integers, Sequences, FiniteSets, TLC

(***************************************************************************)
(* Bounds of the model.                                                    *)
(***************************************************************************)
\* number of RPC callers that can be inside the server at the same time
NumCallers == 2
\* total number of calls admitted in one run
MaxCalls == 3
\* engine_helpers.MaxBuilders, scaled down so that eviction is reached
MaxBuilders == 2

Callers == 1..NumCallers
NoCaller == 0

None == <<>>
Some(v) == <<v>>

(***************************************************************************)
(* clparams.StateVersion: the method version a handler was entered with.   *)
(***************************************************************************)
BellatrixVersion == 2
CapellaVersion == 3
DenebVersion == 4

(***************************************************************************)
(* chain.Config: fork activation by timestamp.                             *)
(***************************************************************************)
ShanghaiTime == 15
CancunTime == 25
TerminalTotalDifficulty == 100

IsShanghai(time) == time >= ShanghaiTime
IsCancun(time) == time >= CancunTime

(***************************************************************************)
(* engine_types: payload statuses and the errors of the handlers.          *)
(***************************************************************************)
ValidStatus == "VALID"
InvalidStatus == "INVALID"
SyncingStatus == "SYNCING"
AcceptedStatus == "ACCEPTED"
InvalidBlockHashStatus == "INVALID_BLOCK_HASH"

ErrInvalidParams == "INVALID_PARAMS"
ErrInvalidPayloadAttributes == "INVALID_PAYLOAD_ATTRIBUTES"
ErrUnknownPayload == "UNKNOWN_PAYLOAD"
ErrNotProposer == "execution layer not running as a proposer"
ErrNotPoS == "not a proof-of-stake chain"
ErrCritical == "critical importer error"
ErrTooLargeRequest == "TOO_LARGE_REQUEST"

ZeroHash == 0

\* engine_types.PayloadStatus
PayloadStatus(status, lvh, verr) ==
    [Status |-> status, LatestValidHash |-> lvh, ValidationError |-> verr,
     CriticalError |-> ""]

\* A handler's return value: a PayloadStatus, a payload id, a block, or an error.
NoStatus == PayloadStatus("", None, "")
NoResult == [err |-> "", status |-> NoStatus, payloadId |-> None, block |-> None,
             bodies |-> None]
ResultStatus(st) == [NoResult EXCEPT !.status = st]
ResultError(e) == [NoResult EXCEPT !.err = e]
ResultBuild(st, id) == [NoResult EXCEPT !.status = st, !.payloadId = Some(id)]
ResultBlock(b) == [NoResult EXCEPT !.block = Some(b)]
ResultBodies(list) == [NoResult EXCEPT !.bodies = Some(list)]

(***************************************************************************)
(* Header hashing.  types.Header.Hash is the keccak of the RLP of the      *)
(* header fields; here a checksum of the same fields, so that a changed    *)
(* field or a changed presence of an optional field changes the hash.      *)
(***************************************************************************)
RECURSIVE DeriveSha(_)
DeriveSha(list) ==
    IF list = <<>> THEN 1
    ELSE (7 * DeriveSha(Tail(list)) + Head(list) + 3) % 9973

OptCode(o) == IF o = None THEN 0 ELSE 1 + o[1]

HeaderHash(h) ==
    1 + ((31 * h.ParentHash + 17 * h.Number + 13 * h.Time + 11 * h.TxHash
          + 101 * h.Root + 211 * OptCode(h.WithdrawalsHash)
          + 307 * OptCode(h.DataGasUsed) + 401 * OptCode(h.ExcessDataGas))
         % 9973)

(***************************************************************************)
(* The blocks of the modelled chain, as the headers the chain store and    *)
(* the consensus client know them: a terminal proof-of-work block T, its   *)
(* pre-merge parent P, and the proof-of-stake blocks A1 <- A2 <- A3 with   *)
(* the side block B2 (a sibling of A2).                                    *)
(***************************************************************************)
Header(parent, number, time, root, txs, withdrawals, dataGas) ==
    [ParentHash |-> parent, Number |-> number, Time |-> time, Root |-> root,
     TxHash |-> DeriveSha(txs),
     WithdrawalsHash |-> IF withdrawals = None THEN None
                         ELSE Some(DeriveSha(withdrawals[1])),
     DataGasUsed |-> dataGas, ExcessDataGas |-> dataGas]

HdrP == Header(ZeroHash, 0, 0, 0, <<>>, None, None)
HashP == HeaderHash(HdrP)
HdrT == Header(HashP, 1, 1, 0, <<>>, None, None)
HashT == HeaderHash(HdrT)
HdrA1 == Header(HashT, 2, 10, 0, <<1>>, None, None)
HashA1 == HeaderHash(HdrA1)
HdrA2 == Header(HashA1, 3, 20, 0, <<1>>, Some(<<>>), None)
HashA2 == HeaderHash(HdrA2)
HdrB2 == Header(HashA1, 3, 21, 1, <<1>>, Some(<<>>), None)
HashB2 == HeaderHash(HdrB2)
HdrA3 == Header(HashA2, 4, 30, 0, <<1>>, Some(<<>>), Some(0))
HashA3 == HeaderHash(HdrA3)

AllHeaders == {HdrP, HdrT, HdrA1, HdrA2, HdrB2, HdrA3}

\* total difficulty of a block: P is below the terminal total difficulty
TdOf(h) == IF h = HdrP THEN TerminalTotalDifficulty - 1 ELSE TerminalTotalDifficulty

(***************************************************************************)
(* State.                                                                  *)
(***************************************************************************)
VARIABLES
    config,           \* chain.Config: TerminalTotalDifficulty (nil or set)
    proposing,        \* EngineServer.proposing
    lock,             \* EngineServer.lock: NoCaller, or the caller holding it
    payloadId,        \* EngineServer.payloadId
    lastParameters,   \* EngineServer.lastParameters (nil or the parameters)
    builders,         \* EngineServer.builders: payload id -> builder
    db,               \* chain store: headers, canonical chain, head, forkchoice
    badHeaders,       \* hd: bad-header memory, hash -> last valid hash
    posSync,          \* hd.POSSync()
    posStatus,        \* hd.PosStatus()
    requestList,      \* hd.BeaconRequestList: the importer's request queue
    waiting,          \* hd.BeaconRequestList is in the waiting state
    processing,       \* the request the importer took and has not answered
    PayloadStatusCh,  \* hd.PayloadStatusCh: the reply channel, one slot
    call,             \* per caller: the request being served and its result
    returned,         \* the call that returned in the last step, if one did
    calls,            \* calls admitted so far
    buildLog          \* history: the payload ids ForkchoiceUpdated returned

vars == <<config, proposing, lock, payloadId, lastParameters, builders, db,
          badHeaders, posSync, posStatus, requestList, waiting, processing,
          PayloadStatusCh, call, returned, calls, buildLog>>

serverVars == <<lock, payloadId, lastParameters, builders>>
registryVars == <<payloadId, lastParameters, builders>>
importerVars == <<requestList, waiting, processing, PayloadStatusCh>>
envVars == <<config, proposing, posSync, posStatus>>

Idle == "Idle"
Syncing == "Syncing"

(***************************************************************************)
(* Chain store reads (rawdb, blockReader).                                 *)
(***************************************************************************)
ReadHeaderByHash(hash) ==
    LET found == {h \in db.headers : HeaderHash(h) = hash}
    IN  IF found = {} THEN None ELSE Some(CHOOSE h \in found : TRUE)

ReadTdByHash(hash) ==
    LET h == ReadHeaderByHash(hash)
    IN  IF h = None THEN None ELSE Some(TdOf(h[1]))

\* a canonical read that finds nothing
CanonicalHashMissing(number) == ZeroHash
\* blockReader.CanonicalHash
CanonicalHash(number) ==
    LET found == {h \in db.canonical : h.Number = number}
    IN  IF found = {} THEN ZeroHash ELSE HeaderHash(CHOOSE h \in found : TRUE)

ReadHeadBlockHash == db.head

\* the block with this hash is on the canonical chain
IsCanonical(hash) == \E h \in db.canonical : HeaderHash(h) = hash

(***************************************************************************)
(* hd: the bad-header memory.                                              *)
(***************************************************************************)
\* hd.IsBadHeaderPoS: <<bad, lastValidHash>>
IsBadHeaderPoS(hash) ==
    IF hash \in DOMAIN badHeaders THEN <<TRUE, badHeaders[hash]>>
    ELSE <<FALSE, ZeroHash>>

\* a report that forgets what the memory held
ReportBadHeaderPoSForgets(bad, hash, lastValidHash) ==
    [h \in {hash} |-> lastValidHash]
\* hd.ReportBadHeaderPoS, applied to the memory bad
ReportBadHeaderPoS(bad, hash, lastValidHash) ==
    [h \in DOMAIN bad \cup {hash} |->
        IF h = hash THEN lastValidHash ELSE bad[h]]

\* a classifier run whose report is lost
ApplyReportLost(report) == badHeaders
\* the bad-header memory after the reports of a classifier run
ApplyReport(report) ==
    IF report = None THEN badHeaders
    ELSE ReportBadHeaderPoS(badHeaders, report[1][1], report[1][2])

(***************************************************************************)
(* getQuickPayloadStatusIfPossible up to the busy probe: the error, the    *)
(* status decided (nil when undecided) and the bad header reported.        *)
(***************************************************************************)
Quick(err, status, report) == [err |-> err, status |-> status, report |-> report]
Decided(status) == Quick("", Some(status), None)
Undecided == Quick("", None, None)

\* the repeated-forkchoice rule consulted only once PoS sync is reached
repeatedForkchoiceWhenSynced(forkchoiceMessage) ==
    /\ posSync
    /\ forkchoiceMessage # None
    /\ forkchoiceMessage[1].FinalizedBlockHash = db.fcFinalized
    /\ forkchoiceMessage[1].HeadHash = db.fcHead
    /\ forkchoiceMessage[1].SafeBlockHash = db.fcSafe
\* the forkchoice message equals the persisted forkchoice triple
repeatedForkchoice(forkchoiceMessage) ==
    /\ forkchoiceMessage # None
    /\ forkchoiceMessage[1].FinalizedBlockHash = db.fcFinalized
    /\ forkchoiceMessage[1].HeadHash = db.fcHead
    /\ forkchoiceMessage[1].SafeBlockHash = db.fcSafe

\* the comparison with the terminal total difficulty turned around
beforeTTDReversed(td) == td # None /\ td[1] > config.TerminalTotalDifficulty[1]
\* td != nil && td.Cmp(s.config.TerminalTotalDifficulty) < 0
beforeTTD(td) == td # None /\ td[1] < config.TerminalTotalDifficulty[1]

\* the bad-header lookup that never looks at the parent
knownBadSelfOnly(blockHash, parentHash, newPayload) == IsBadHeaderPoS(blockHash)
\* the bad-header lookup: the block itself, then for newPayload its parent
knownBad(blockHash, parentHash, newPayload) ==
    IF IsBadHeaderPoS(blockHash)[1] THEN IsBadHeaderPoS(blockHash)
    ELSE IF newPayload THEN IsBadHeaderPoS(parentHash)
    ELSE IsBadHeaderPoS(blockHash)

getQuickPayloadStatusIfPossible(blockHash, blockNumber, parentHash, forkchoiceMessage, newPayload) ==
    LET header == ReadHeaderByHash(blockHash)
        parent == IF newPayload THEN ReadHeaderByHash(parentHash) ELSE None
        td == IF newPayload THEN ReadTdByHash(parentHash) ELSE ReadTdByHash(blockHash)
        canonicalHash == IF header # None THEN CanonicalHash(header[1].Number)
                         ELSE ZeroHash
        bad == knownBad(blockHash, parentHash, newPayload)
        headHash == ReadHeadBlockHash
    IN
    IF config.TerminalTotalDifficulty = None THEN Quick(ErrNotPoS, None, None)
    ELSE IF repeatedForkchoice(forkchoiceMessage)
    THEN Decided(PayloadStatus(ValidStatus, Some(blockHash), ""))
    ELSE IF beforeTTD(td)
    THEN Decided(PayloadStatus(InvalidStatus, Some(ZeroHash), ""))
    ELSE IF ~posSync
    THEN Decided(PayloadStatus(SyncingStatus, None, ""))
    ELSE IF newPayload /\ parent # None /\ blockNumber # parent[1].Number + 1
    THEN Quick("", Some(PayloadStatus(InvalidStatus, Some(HeaderHash(parent[1])),
                                      "invalid block number")),
               Some(<<blockHash, HeaderHash(parent[1])>>))
    ELSE IF bad[1]
    THEN Quick("", Some(PayloadStatus(InvalidStatus, Some(bad[2]), "")),
               Some(<<blockHash, bad[2]>>))
    ELSE IF newPayload /\ header # None /\ canonicalHash = blockHash
    THEN Decided(PayloadStatus(ValidStatus, Some(blockHash), ""))
    ELSE IF newPayload /\ parent = None /\ posStatus # Idle
    THEN Decided(PayloadStatus(SyncingStatus, None, ""))
    ELSE IF ~newPayload /\ header = None /\ posStatus # Idle
    THEN Decided(PayloadStatus(SyncingStatus, None, ""))
    ELSE IF ~newPayload /\ blockHash # headHash /\ canonicalHash = blockHash
    THEN Decided(PayloadStatus(ValidStatus, Some(blockHash), ""))
    ELSE Undecided

\* a probe that never finds the stage loop busy
stageLoopNeverBusy == FALSE
\* stageLoopIsBusy: the request list is not in the waiting state when the
\* probe's deadline passes
stageLoopIsBusy == ~waiting

(***************************************************************************)
(* Callers.                                                                *)
(***************************************************************************)
NoPayload == [ParentHash |-> ZeroHash, BlockNumber |-> 0, Timestamp |-> 0,
              StateRoot |-> 0, Transactions |-> <<>>, Withdrawals |-> None,
              DataGasUsed |-> None, ExcessDataGas |-> None, BlockHash |-> ZeroHash]
NoForkChoice == [HeadHash |-> ZeroHash, SafeBlockHash |-> ZeroHash,
                 FinalizedBlockHash |-> ZeroHash]

IdleCall == [op |-> "none", pc |-> "idle", id |-> 0, version |-> BellatrixVersion,
             payload |-> NoPayload, forkChoice |-> NoForkChoice,
             attributes |-> None, getId |-> <<>>,
             status |-> None, replyFor |-> None, result |-> NoResult,
             headAtCall |-> ZeroHash, canonicalAtCall |-> FALSE,
             start |-> 0, count |-> 0, hashes |-> <<>>, readTx |-> FALSE,
             client |-> "", callErr |-> "", response |-> None, found |-> "",
             eth1Block |-> None, invalid |-> FALSE]

\* Callers are interchangeable: a new call takes the lowest idle slot.
CanStart(p) ==
    /\ call[p].pc = "idle"
    /\ calls < MaxCalls
    /\ \A q \in Callers : q < p => call[q].pc # "idle"

\* a proposer test that lets every server through
proposerNotTested(flag) == FALSE
\* !s.proposing
proposerDisabled(flag) == ~flag

\* a reply whose critical error is never looked at
criticalErrorIgnored(status) == FALSE
\* payloadStatus.CriticalError != nil
hasCriticalError(status) == status.CriticalError # ""

\* caller p, serving call c, returns r: the call is recorded in returned for
\* the one state that follows the return
Return(p, c, r) ==
    /\ call' = [call EXCEPT ![p] = IdleCall]
    /\ returned' = [c EXCEPT !.pc = "done", !.result = r]

\* caller p goes on with call c
Continue(p, c) ==
    /\ call' = [call EXCEPT ![p] = c]
    /\ returned' = IdleCall

(***************************************************************************)
(* The server mutex.                                                       *)
(***************************************************************************)
\* a mutex that never blocks
LockNeverBlocks == TRUE
\* sync.Mutex.Lock returns only when no request holds the mutex
LockIsFree == lock = NoCaller

(***************************************************************************)
(* newPayload: the envelope checks before the classifier.                  *)
(***************************************************************************)
\* the presence check with the Shanghai test lost
checkWithdrawalsPresenceNoGate(time, withdrawals) == ""
checkWithdrawalsPresence(time, withdrawals) ==
    IF ~IsShanghai(time) /\ withdrawals # None THEN ErrInvalidParams
    ELSE IF IsShanghai(time) /\ withdrawals = None THEN ErrInvalidParams
    ELSE ""

\* the withdrawals the handler reads from the envelope at its version
newPayloadWithdrawals(req, version) ==
    IF version >= CapellaVersion THEN req.Withdrawals ELSE None

\* the header newPayload reconstructs
newPayloadHeader(req, version) ==
    [ParentHash |-> req.ParentHash, Number |-> req.BlockNumber,
     Time |-> req.Timestamp, Root |-> req.StateRoot,
     TxHash |-> DeriveSha(req.Transactions),
     WithdrawalsHash |->
        IF newPayloadWithdrawals(req, version) # None
        THEN Some(DeriveSha(newPayloadWithdrawals(req, version)[1])) ELSE None,
     DataGasUsed |-> IF version >= DenebVersion THEN req.DataGasUsed ELSE None,
     ExcessDataGas |-> IF version >= DenebVersion THEN req.ExcessDataGas ELSE None]

\* transactions are byte strings: 1 a well-formed transaction, 2 a typed
\* transaction marshalled as an RLP string, 3 bytes that do not decode
TypedTransactionMarshalledAsRlpString(txn) == txn = 2
\* a decoder that accepts every byte string
decodeNeverFails(txs) == FALSE
\* types.DecodeTransactions(txs) returns an error
DecodeTransactionsFails(txs) == \E i \in 1..Len(txs) : txs[i] # 1

\* the hash comparison answering with the deprecated status
hashMismatchStatusDeprecated ==
    PayloadStatus(InvalidBlockHashStatus, None, "invalid block hash")
hashMismatchStatus ==
    PayloadStatus(InvalidStatus, None, "invalid block hash")

\* the result of the envelope checks, NoResult when the envelope passes
newPayloadCheck(req, version) ==
    LET header == newPayloadHeader(req, version)
        withdrawals == newPayloadWithdrawals(req, version)
    IN
    IF checkWithdrawalsPresence(header.Time, withdrawals) # ""
    THEN ResultError(checkWithdrawalsPresence(header.Time, withdrawals))
    ELSE IF ~IsCancun(header.Time)
            /\ (header.DataGasUsed # None \/ header.ExcessDataGas # None)
    THEN ResultError(ErrInvalidParams)
    ELSE IF IsCancun(header.Time)
            /\ (header.DataGasUsed = None \/ header.ExcessDataGas = None)
    THEN ResultError(ErrInvalidParams)
    ELSE IF HeaderHash(header) # req.BlockHash
    THEN ResultStatus(hashMismatchStatus)
    ELSE IF \E i \in 1..Len(req.Transactions) :
                TypedTransactionMarshalledAsRlpString(req.Transactions[i])
    THEN ResultStatus(PayloadStatus(InvalidStatus, None,
                                    "typed txn marshalled as RLP string"))
    ELSE IF DecodeTransactionsFails(req.Transactions)
    THEN ResultStatus(PayloadStatus(InvalidStatus, None, "transaction decode error"))
    ELSE NoResult

(***************************************************************************)
(* newPayload.                                                             *)
(***************************************************************************)
\* entry: envelope checks and the classifier up to the busy probe
NewPayload(p, req, version) ==
    /\ CanStart(p)
    /\ calls' = calls + 1
    /\ LET c == [IdleCall EXCEPT !.op = "NewPayload", !.id = calls + 1,
                                 !.version = version, !.payload = req]
           chk == newPayloadCheck(req, version)
           q == getQuickPayloadStatusIfPossible(req.BlockHash, req.BlockNumber,
                                                req.ParentHash, None, TRUE)
       IN
       IF chk # NoResult
       THEN /\ Return(p, c, chk)
            /\ UNCHANGED badHeaders
       ELSE IF q.err # ""
       THEN /\ Return(p, c, ResultError(q.err))
            /\ UNCHANGED badHeaders
       ELSE IF q.status # None
       THEN /\ Return(p, c, ResultStatus(q.status[1]))
            /\ badHeaders' = ApplyReport(q.report)
       ELSE /\ Continue(p, [c EXCEPT !.pc = "np_probe"])
            /\ UNCHANGED badHeaders
    /\ UNCHANGED <<serverVars, db, importerVars, envVars, buildLog>>

\* the busy probe ending the classifier
NP_Probe(p) ==
    /\ call[p].pc = "np_probe"
    /\ IF stageLoopIsBusy
       THEN Return(p, call[p], ResultStatus(PayloadStatus(SyncingStatus, None, "")))
       ELSE Continue(p, [call[p] EXCEPT !.pc = "np_lock"])
    /\ UNCHANGED <<serverVars, db, badHeaders, importerVars, envVars, calls, buildLog>>

\* s.lock.Lock()
NP_Lock(p) ==
    /\ call[p].pc = "np_lock"
    /\ LockIsFree
    /\ lock' = p
    /\ Continue(p, [call[p] EXCEPT !.pc = "np_enqueue"])
    /\ UNCHANGED <<registryVars, db, badHeaders, importerVars, envVars, calls, buildLog>>

\* the enqueue followed by the deferred unlock running at once
NP_EnqueueUnlocks(p) ==
    /\ call[p].pc = "np_enqueue"
    /\ requestList' = Append(requestList,
            [id |-> call[p].id, kind |-> "payload",
             header |-> Some(newPayloadHeader(call[p].payload, call[p].version)),
             forkChoice |-> NoForkChoice])
    /\ Continue(p, [call[p] EXCEPT !.pc = "np_recv"])
    /\ lock' = NoCaller
    /\ UNCHANGED <<registryVars, db, badHeaders, waiting, processing,
                   PayloadStatusCh, envVars, calls, buildLog>>
\* s.hd.BeaconRequestList.AddPayloadRequest(block)
NP_Enqueue(p) ==
    /\ call[p].pc = "np_enqueue"
    /\ requestList' = Append(requestList,
            [id |-> call[p].id, kind |-> "payload",
             header |-> Some(newPayloadHeader(call[p].payload, call[p].version)),
             forkChoice |-> NoForkChoice])
    /\ Continue(p, [call[p] EXCEPT !.pc = "np_recv"])
    /\ UNCHANGED <<serverVars, db, badHeaders, waiting, processing,
                   PayloadStatusCh, envVars, calls, buildLog>>

\* a newPayload that returns the reply and leaves the mutex locked
NP_RecvKeepsLock(p) ==
    /\ call[p].pc = "np_recv"
    /\ PayloadStatusCh # <<>>
    /\ LET reply == Head(PayloadStatusCh)
           c == [call[p] EXCEPT !.replyFor = Some(reply.for)]
       IN  Return(p, c, ResultStatus(reply.status))
    /\ PayloadStatusCh' = Tail(PayloadStatusCh)
    /\ UNCHANGED <<serverVars, db, badHeaders, requestList, waiting, processing,
                   envVars, calls, buildLog>>
\* payloadStatus := <-s.hd.PayloadStatusCh, the return and the deferred unlock
NP_Recv(p) ==
    /\ call[p].pc = "np_recv"
    /\ PayloadStatusCh # <<>>
    /\ LET reply == Head(PayloadStatusCh)
           c == [call[p] EXCEPT !.replyFor = Some(reply.for)]
       IN  IF hasCriticalError(reply.status)
           THEN Return(p, c, ResultError(reply.status.CriticalError))
           ELSE Return(p, c, ResultStatus(reply.status))
    /\ PayloadStatusCh' = Tail(PayloadStatusCh)
    /\ lock' = NoCaller
    /\ UNCHANGED <<registryVars, db, badHeaders, requestList, waiting, processing,
                   envVars, calls, buildLog>>

(***************************************************************************)
(* Payload ids on the wire.                                                *)
(***************************************************************************)
RECURSIVE ShiftRight8(_, _)
ShiftRight8(v, k) == IF k = 0 THEN v ELSE ShiftRight8(v \div 256, k - 1)

\* the 8 bytes with the two least significant bytes exchanged
convertPayloadIdSwapped(id) ==
    [i \in 1..8 |-> ShiftRight8(id, IF i = 8 THEN 1 ELSE IF i = 7 THEN 0 ELSE 8 - i) % 256]
\* binary.BigEndian.PutUint64 into 8 bytes
convertPayloadId(id) == [i \in 1..8 |-> ShiftRight8(id, 8 - i) % 256]

RECURSIVE BigEndianUint64(_)
\* binary.BigEndian.Uint64
BigEndianUint64(bytes) ==
    IF bytes = <<>> THEN 0
    ELSE 256 * BigEndianUint64(SubSeq(bytes, 1, Len(bytes) - 1)) + bytes[Len(bytes)]

(***************************************************************************)
(* The builder registry.                                                   *)
(***************************************************************************)
RECURSIVE SortedAscending(_)
SortedAscending(S) ==
    IF S = {} THEN <<>>
    ELSE LET m == CHOOSE x \in S : \A y \in S : x <= y
         IN  <<m>> \o SortedAscending(S \ {m})

\* common.SortedKeys
SortedKeys(m) == SortedAscending(DOMAIN m)

Delete(m, k) == [x \in DOMAIN m \ {k} |-> m[x]]

\* a loop that deletes from the end of the sorted ids
RECURSIVE evictLoopNewestFirst(_, _, _)
evictLoopNewestFirst(b, ids, i) ==
    IF i <= Cardinality(DOMAIN b) - MaxBuilders
    THEN evictLoopNewestFirst(Delete(b, ids[Len(ids) - i]), ids, i + 1)
    ELSE b
\* the loop of evictOldBuilders from index i on, len(s.builders) read anew
\* at every test of the loop condition
RECURSIVE evictLoop(_, _, _)
evictLoop(b, ids, i) ==
    IF i <= Cardinality(DOMAIN b) - MaxBuilders
    THEN evictLoop(Delete(b, ids[i + 1]), ids, i + 1)
    ELSE b

\* an eviction that removes nothing
evictNothing(b) == b
evictOldBuilders(b) == evictLoop(b, SortedKeys(b), 0)

\* a builder created from the parameters as they were before the new payload
\* id was assigned to them
NewBlockBuilderBeforeId(param) ==
    [param |-> [param EXCEPT !.PayloadId = @ - 1], state |-> "Building"]
\* builder.NewBlockBuilder
NewBlockBuilder(param) == [param |-> param, state |-> "Building"]

\* the counter left as it is
sameId(id) == id
\* s.payloadId++
nextPayloadId(id) == id + 1

\* the parameters of a build request without the payload id
Normalised(param) ==
    [ParentHash |-> param.ParentHash, Timestamp |-> param.Timestamp,
     PrevRandao |-> param.PrevRandao,
     SuggestedFeeRecipient |-> param.SuggestedFeeRecipient,
     Withdrawals |-> param.Withdrawals]

\* the parameters with the payload id left at its zero value
buildParametersWithoutId(forkChoice, attributes, version, id) ==
    [ParentHash |-> forkChoice.HeadHash, Timestamp |-> attributes.Timestamp,
     PrevRandao |-> attributes.PrevRandao,
     SuggestedFeeRecipient |-> attributes.SuggestedFeeRecipient,
     PayloadId |-> 0,
     Withdrawals |-> IF version >= CapellaVersion THEN attributes.Withdrawals
                     ELSE None]
\* core.BlockBuilderParameters as forkchoiceUpdated fills it in
buildParameters(forkChoice, attributes, version, id) ==
    [ParentHash |-> forkChoice.HeadHash, Timestamp |-> attributes.Timestamp,
     PrevRandao |-> attributes.PrevRandao,
     SuggestedFeeRecipient |-> attributes.SuggestedFeeRecipient,
     PayloadId |-> id,
     Withdrawals |-> IF version >= CapellaVersion THEN attributes.Withdrawals
                     ELSE None]

\* a comparison that never finds a duplicate
neverDuplicate(last, param) == FALSE
\* reflect.DeepEqual(s.lastParameters, &param)
isDuplicate(last, param) == last = Some(param)

(***************************************************************************)
(* forkchoiceUpdated.                                                      *)
(***************************************************************************)
\* entry: the classifier up to the busy probe
ForkchoiceUpdated(p, forkChoice, attributes, version) ==
    /\ CanStart(p)
    /\ calls' = calls + 1
    /\ LET c == [IdleCall EXCEPT !.op = "ForkchoiceUpdated", !.id = calls + 1,
                                 !.version = version, !.forkChoice = forkChoice,
                                 !.attributes = attributes,
                                 !.headAtCall = ReadHeadBlockHash,
                                 !.canonicalAtCall = IsCanonical(forkChoice.HeadHash)]
           q == getQuickPayloadStatusIfPossible(forkChoice.HeadHash, 0, ZeroHash,
                                                Some(forkChoice), FALSE)
       IN
       IF q.err # ""
       THEN /\ Return(p, c, ResultError(q.err))
            /\ UNCHANGED badHeaders
       ELSE IF q.status # None
       THEN /\ Continue(p, [c EXCEPT !.pc = "fcu_lock", !.status = q.status])
            /\ badHeaders' = ApplyReport(q.report)
       ELSE /\ Continue(p, [c EXCEPT !.pc = "fcu_probe"])
            /\ UNCHANGED badHeaders
    /\ UNCHANGED <<serverVars, db, importerVars, envVars, buildLog>>

\* the busy probe ending the classifier
FCU_Probe(p) ==
    /\ call[p].pc = "fcu_probe"
    /\ Continue(p, [call[p] EXCEPT
                        !.pc = "fcu_lock",
                        !.status = IF stageLoopIsBusy
                                   THEN Some(PayloadStatus(SyncingStatus, None, ""))
                                   ELSE None])
    /\ UNCHANGED <<serverVars, db, badHeaders, importerVars, envVars, calls, buildLog>>

\* a forkchoiceUpdated that takes the mutex only when its status is undecided
FCU_LockOnlyUndecided(p) ==
    /\ call[p].pc = "fcu_lock"
    /\ IF call[p].status = None
       THEN /\ LockIsFree
            /\ lock' = p
            /\ Continue(p, [call[p] EXCEPT !.pc = "fcu_enqueue"])
       ELSE /\ UNCHANGED lock
            /\ Continue(p, [call[p] EXCEPT !.pc = "fcu_build"])
    /\ UNCHANGED <<registryVars, db, badHeaders, importerVars, envVars, calls, buildLog>>
\* s.lock.Lock()
FCU_Lock(p) ==
    /\ call[p].pc = "fcu_lock"
    /\ LockIsFree
    /\ lock' = p
    /\ Continue(p, [call[p] EXCEPT !.pc =
            IF call[p].status = None THEN "fcu_enqueue" ELSE "fcu_build"])
    /\ UNCHANGED <<registryVars, db, badHeaders, importerVars, envVars, calls, buildLog>>

\* a forkchoiceUpdated that tests the proposer switch before it submits the
\* forkchoice of a request with attributes
FCU_EnqueueChecksProposer(p) ==
    /\ call[p].pc = "fcu_enqueue"
    /\ IF call[p].attributes # None /\ ~proposing
       THEN /\ Return(p, call[p], ResultError(ErrNotProposer))
            /\ lock' = NoCaller
            /\ UNCHANGED <<registryVars, requestList>>
       ELSE /\ requestList' = Append(requestList,
                    [id |-> call[p].id, kind |-> "forkchoice", header |-> None,
                     forkChoice |-> call[p].forkChoice])
            /\ Continue(p, [call[p] EXCEPT !.pc = "fcu_recv"])
            /\ UNCHANGED serverVars
    /\ UNCHANGED <<db, badHeaders, waiting, processing,
                   PayloadStatusCh, envVars, calls, buildLog>>
\* s.hd.BeaconRequestList.AddForkChoiceRequest(forkChoice)
FCU_Enqueue(p) ==
    /\ call[p].pc = "fcu_enqueue"
    /\ requestList' = Append(requestList,
            [id |-> call[p].id, kind |-> "forkchoice", header |-> None,
             forkChoice |-> call[p].forkChoice])
    /\ Continue(p, [call[p] EXCEPT !.pc = "fcu_recv"])
    /\ UNCHANGED <<serverVars, db, badHeaders, waiting, processing,
                   PayloadStatusCh, envVars, calls, buildLog>>

\* statusDeref := <-s.hd.PayloadStatusCh; a CriticalError returns and unlocks
FCU_Recv(p) ==
    /\ call[p].pc = "fcu_recv"
    /\ PayloadStatusCh # <<>>
    /\ LET reply == Head(PayloadStatusCh)
           c == [call[p] EXCEPT !.replyFor = Some(reply.for),
                                !.status = Some(reply.status)]
       IN  IF hasCriticalError(reply.status)
           THEN /\ Return(p, c, ResultError(reply.status.CriticalError))
                /\ lock' = NoCaller
           ELSE /\ Continue(p, [c EXCEPT !.pc = "fcu_build"])
                /\ UNCHANGED lock
    /\ PayloadStatusCh' = Tail(PayloadStatusCh)
    /\ UNCHANGED <<registryVars, db, badHeaders, requestList, waiting, processing,
                   envVars, calls, buildLog>>

\* a timestamp test that lets the head's own timestamp through
timestampBeforeHead(headTime, timestamp) == headTime > timestamp
\* headHeader.Time >= uint64(payloadAttributes.Timestamp)
timestampNotAfterHead(headTime, timestamp) == headTime >= timestamp

\* the rest of forkchoiceUpdated, under the mutex: the attribute checks, the
\* duplicate test, eviction and the new builder; then the deferred unlock
FCU_Build(p) ==
    /\ call[p].pc = "fcu_build"
    /\ lock' = NoCaller
    /\ LET c == call[p]
           status == c.status[1]
           headHash == ReadHeadBlockHash
           headHeader == ReadHeaderByHash(headHash)[1]
           param == buildParameters(c.forkChoice, c.attributes[1], c.version, payloadId)
           newId == nextPayloadId(payloadId)
           newParam == [param EXCEPT !.PayloadId = newId]
           built == PayloadStatus(ValidStatus, Some(headHash), "")
       IN
       IF c.attributes = None \/ status.Status # ValidStatus
       THEN /\ Return(p, c, ResultStatus(status))
            /\ UNCHANGED <<registryVars, buildLog>>
       ELSE IF proposerDisabled(proposing)
       THEN /\ Return(p, c, ResultError(ErrNotProposer))
            /\ UNCHANGED <<registryVars, buildLog>>
       ELSE IF HeaderHash(headHeader) # c.forkChoice.HeadHash
       THEN /\ Return(p, c, ResultStatus(status))
            /\ UNCHANGED <<registryVars, buildLog>>
       ELSE IF timestampNotAfterHead(headHeader.Time, c.attributes[1].Timestamp)
       THEN /\ Return(p, c, ResultError(ErrInvalidPayloadAttributes))
            /\ UNCHANGED <<registryVars, buildLog>>
       ELSE IF checkWithdrawalsPresence(c.attributes[1].Timestamp, param.Withdrawals) # ""
       THEN /\ Return(p, c, ResultError(
                    checkWithdrawalsPresence(c.attributes[1].Timestamp, param.Withdrawals)))
            /\ UNCHANGED <<registryVars, buildLog>>
       ELSE IF isDuplicate(lastParameters, param)
       THEN /\ Return(p, c, ResultBuild(built, convertPayloadId(payloadId)))
            /\ buildLog' = Append(buildLog,
                    [norm |-> Normalised(param), wire |-> convertPayloadId(payloadId),
                     fresh |-> FALSE])
            /\ UNCHANGED registryVars
       ELSE /\ payloadId' = newId
            /\ lastParameters' = Some(newParam)
            /\ builders' = [k \in DOMAIN evictOldBuilders(builders) \cup {newId} |->
                                IF k = newId THEN NewBlockBuilder(newParam)
                                ELSE evictOldBuilders(builders)[k]]
            /\ Return(p, c, ResultBuild(built, convertPayloadId(newId)))
            /\ buildLog' = Append(buildLog,
                    [norm |-> Normalised(param), wire |-> convertPayloadId(newId),
                     fresh |-> TRUE])
    /\ UNCHANGED <<db, badHeaders, importerVars, envVars, calls>>

(***************************************************************************)
(* getPayload.                                                             *)
(***************************************************************************)
\* GetPayloadV1/V2/V3 and the entry of getPayload, before the mutex
GetPayload(p, payloadIdBytes) ==
    /\ CanStart(p)
    /\ calls' = calls + 1
    /\ LET c == [IdleCall EXCEPT !.op = "GetPayload", !.id = calls + 1,
                                 !.getId = payloadIdBytes]
       IN  IF proposerDisabled(proposing)
           THEN Return(p, c, ResultError(ErrNotProposer))
           ELSE IF config.TerminalTotalDifficulty = None
           THEN Return(p, c, ResultError(ErrNotPoS))
           ELSE Continue(p, [c EXCEPT !.pc = "gp_lock"])
    /\ UNCHANGED <<serverVars, db, badHeaders, importerVars, envVars, buildLog>>

\* getPayload entering its section without the mutex
GP_LockSkipped(p) ==
    /\ call[p].pc = "gp_lock"
    /\ Continue(p, [call[p] EXCEPT !.pc = "gp_get"])
    /\ UNCHANGED <<serverVars, db, badHeaders, importerVars, envVars, calls, buildLog>>
\* s.lock.Lock()
GP_Lock(p) ==
    /\ call[p].pc = "gp_lock"
    /\ LockIsFree
    /\ lock' = p
    /\ Continue(p, [call[p] EXCEPT !.pc = "gp_get"])
    /\ UNCHANGED <<registryVars, db, badHeaders, importerVars, envVars, calls, buildLog>>

\* a lookup that finds only builders that have not been stopped
hasRunningBuilder(b, id) == id \in DOMAIN b /\ b[id].state = "Building"
\* a lookup that finds no builder
hasNoBuilder(b, id) == FALSE
\* builder, ok := s.builders[payloadId]
hasBuilder(b, id) == id \in DOMAIN b

\* a getPayload that stops every builder of the map
GP_GetStopsAll(p) ==
    /\ call[p].pc = "gp_get"
    /\ lock' = NoCaller
    /\ LET id == BigEndianUint64(call[p].getId)
       IN  IF ~hasBuilder(builders, id)
           THEN /\ Return(p, call[p], ResultError(ErrUnknownPayload))
                /\ UNCHANGED builders
           ELSE /\ builders' = [k \in DOMAIN builders |->
                                    [builders[k] EXCEPT !.state = "Stopped"]]
                /\ Return(p, call[p], ResultBlock(builders[id].param))
    /\ UNCHANGED <<payloadId, lastParameters, db, badHeaders, importerVars,
                   envVars, calls, buildLog>>
\* a getPayload that takes the builder out of the map when it stops it
GP_GetConsumes(p) ==
    /\ call[p].pc = "gp_get"
    /\ lock' = NoCaller
    /\ LET id == BigEndianUint64(call[p].getId)
       IN  IF ~hasBuilder(builders, id)
           THEN /\ Return(p, call[p], ResultError(ErrUnknownPayload))
                /\ UNCHANGED builders
           ELSE /\ builders' = [k \in DOMAIN builders \ {id} |-> builders[k]]
                /\ Return(p, call[p], ResultBlock(builders[id].param))
    /\ UNCHANGED <<payloadId, lastParameters, db, badHeaders, importerVars,
                   envVars, calls, buildLog>>
\* the lookup, builder.Stop() and the deferred unlock
GP_Get(p) ==
    /\ call[p].pc = "gp_get"
    /\ lock' = NoCaller
    /\ LET id == BigEndianUint64(call[p].getId)
       IN  IF ~hasBuilder(builders, id)
           THEN /\ Return(p, call[p], ResultError(ErrUnknownPayload))
                /\ UNCHANGED builders
           ELSE /\ builders' = [builders EXCEPT ![id].state = "Stopped"]
                /\ Return(p, [call[p] EXCEPT !.found = builders[id].state],
                          ResultBlock(builders[id].param))
    /\ UNCHANGED <<payloadId, lastParameters, db, badHeaders, importerVars,
                   envVars, calls, buildLog>>

(***************************************************************************)
(* The importer (stage loop): takes one request at a time from the         *)
(* request list, answers it on the reply channel, and returns to waiting.  *)
(***************************************************************************)
RECURSIVE Ancestors(_, _)
\* the headers of the chain ending in the block with the given hash
Ancestors(hash, depth) ==
    LET h == ReadHeaderByHash(hash)
    IN  IF h = None \/ depth = 0 THEN {}
        ELSE {h[1]} \cup Ancestors(h[1].ParentHash, depth - 1)

ImporterTake ==
    /\ waiting
    /\ requestList # <<>>
    /\ processing' = Some(Head(requestList))
    /\ requestList' = Tail(requestList)
    /\ waiting' = FALSE
    /\ UNCHANGED <<serverVars, db, badHeaders, PayloadStatusCh, envVars, call,
                   calls, buildLog>>
    /\ returned' = IdleCall

\* whether the importer can find the request VALID
CanBeValid(r) ==
    IF r.kind = "payload" THEN ReadHeaderByHash(r.header[1].ParentHash) # None
    ELSE ReadHeaderByHash(r.forkChoice.HeadHash) # None

ImporterReply(outcome) ==
    /\ processing # None
    /\ Len(PayloadStatusCh) < 1
    /\ LET r == processing[1]
           hash == IF r.kind = "payload" THEN HeaderHash(r.header[1])
                   ELSE r.forkChoice.HeadHash
           status ==
               IF outcome = "critical"
               THEN [PayloadStatus("", None, "") EXCEPT !.CriticalError = ErrCritical]
               ELSE IF outcome = ValidStatus
               THEN PayloadStatus(ValidStatus, Some(hash), "")
               ELSE PayloadStatus(outcome, None, "")
       IN  /\ outcome = ValidStatus => CanBeValid(r)
           /\ PayloadStatusCh' = Append(PayloadStatusCh, [for |-> r.id, status |-> status])
           /\ db' = IF outcome # ValidStatus THEN db
                    ELSE IF r.kind = "payload"
                    THEN [db EXCEPT !.headers = @ \cup {r.header[1]}]
                    ELSE [db EXCEPT !.head = r.forkChoice.HeadHash,
                                    !.canonical = Ancestors(r.forkChoice.HeadHash, 8),
                                    !.fcHead = r.forkChoice.HeadHash,
                                    !.fcSafe = r.forkChoice.SafeBlockHash,
                                    !.fcFinalized = r.forkChoice.FinalizedBlockHash]
    /\ processing' = None
    /\ UNCHANGED <<serverVars, badHeaders, requestList, waiting, envVars, call,
                   calls, buildLog>>
    /\ returned' = IdleCall

ImporterWait ==
    /\ ~waiting
    /\ processing = None
    /\ waiting' = TRUE
    /\ UNCHANGED <<serverVars, db, badHeaders, requestList, processing,
                   PayloadStatusCh, envVars, call, calls, buildLog>>
    /\ returned' = IdleCall

ImporterOutcomes == {ValidStatus, SyncingStatus, "critical"}

(***************************************************************************)
(* Inputs.                                                                 *)
(***************************************************************************)
\* the envelope of a block, with the hash the consensus client states
Envelope(parent, number, time, root, txs, withdrawals, dataGas, excess, hash) ==
    [ParentHash |-> parent, BlockNumber |-> number, Timestamp |-> time,
     StateRoot |-> root, Transactions |-> txs, Withdrawals |-> withdrawals,
     DataGasUsed |-> dataGas, ExcessDataGas |-> excess, BlockHash |-> hash]

EnvA2 == Envelope(HashA1, 3, 20, 0, <<1>>, Some(<<>>), None, None, HashA2)
EnvB2 == Envelope(HashA1, 3, 21, 1, <<1>>, Some(<<>>), None, None, HashB2)

ForkChoice(head, safe, finalized) ==
    [HeadHash |-> head, SafeBlockHash |-> safe, FinalizedBlockHash |-> finalized]

Attributes(time, randao, withdrawals) ==
    [Timestamp |-> time, PrevRandao |-> randao, SuggestedFeeRecipient |-> 1,
     Withdrawals |-> withdrawals]

\* the persisted forkchoice (the classifier answers it) and one that differs
\* in its safe hash (the importer answers it)
FcPersisted == ForkChoice(HashA1, HashT, HashT)
FcNew == ForkChoice(HashA1, HashA1, HashT)
AttrX == Attributes(12, 1, None)
AttrY == Attributes(12, 2, None)

SpecPayloads == {EnvA2}
SpecForkchoiceCalls ==
    {<<FcPersisted, Some(AttrX)>>, <<FcPersisted, Some(AttrY)>>, <<FcNew, None>>}
SpecPayloadIds == {convertPayloadId(1)}

(***************************************************************************)
(* The server with concurrent callers.                                     *)
(***************************************************************************)
InitStore ==
    [headers |-> {HdrP, HdrT, HdrA1}, canonical |-> {HdrP, HdrT, HdrA1},
     head |-> HashA1, fcHead |-> HashA1, fcSafe |-> HashT, fcFinalized |-> HashT]

InitServer ==
    /\ lock = NoCaller
    /\ payloadId = 0
    /\ lastParameters = None
    /\ builders = <<>>
    /\ badHeaders = <<>>
    /\ requestList = <<>>
    /\ waiting = TRUE
    /\ processing = None
    /\ PayloadStatusCh = <<>>
    /\ call = [p \in Callers |-> IdleCall]
    /\ returned = IdleCall
    /\ calls = 0
    /\ buildLog = <<>>

Init ==
    /\ InitServer
    /\ config = [TerminalTotalDifficulty |-> Some(TerminalTotalDifficulty)]
    /\ proposing = TRUE
    /\ db = InitStore
    /\ posSync = TRUE
    /\ posStatus = Idle

Next ==
    \/ \E p \in Callers, req \in SpecPayloads : NewPayload(p, req, CapellaVersion)
    \/ \E p \in Callers : NP_Probe(p)
    \/ \E p \in Callers : NP_Lock(p)
    \/ \E p \in Callers : NP_Enqueue(p)
    \/ \E p \in Callers : NP_Recv(p)
    \/ \E p \in Callers, fcu \in SpecForkchoiceCalls :
          ForkchoiceUpdated(p, fcu[1], fcu[2], CapellaVersion)
    \/ \E p \in Callers : FCU_Probe(p)
    \/ \E p \in Callers : FCU_Lock(p)
    \/ \E p \in Callers : FCU_Enqueue(p)
    \/ \E p \in Callers : FCU_Recv(p)
    \/ \E p \in Callers : FCU_Build(p)
    \/ \E p \in Callers, id \in SpecPayloadIds : GetPayload(p, id)
    \/ \E p \in Callers : GP_Lock(p)
    \/ \E p \in Callers : GP_Get(p)
    \/ ImporterTake
    \/ \E o \in ImporterOutcomes : ImporterReply(o)
    \/ ImporterWait

Spec == Init /\ [][Next]_vars

(***************************************************************************)
(* newPayload alone, over every envelope shape and method version.         *)
(***************************************************************************)
Versions == {BellatrixVersion, CapellaVersion, DenebVersion}

\* envelopes at the three fork stages, before the stated hash is chosen
EnvelopeShapes ==
    {Envelope(slot[1], slot[2], slot[3], 0, txs, w, dg, ex, ZeroHash) :
        slot \in {<<HashT, 2, 10>>, <<HashA1, 3, 20>>, <<HashA2, 4, 30>>},
        txs \in {<<1>>, <<2>>},
        w \in {None, Some(<<>>)}, dg \in {None, Some(0)}, ex \in {None, Some(0)}}

\* the hashes a consensus client may state: the header hash as a method
\* version reconstructs it, or the hash of another block
StatedHashes(e) == {HeaderHash(newPayloadHeader(e, v)) : v \in Versions} \cup {HashT}

PayloadEnvelopes ==
    UNION {{[e EXCEPT !.BlockHash = h] : h \in StatedHashes(e)} : e \in EnvelopeShapes}

\* the consensus client issues its newPayload calls one after another
PayloadCaller == CHOOSE p \in Callers : \A q \in Callers : p <= q

NextPayload ==
    \/ \E req \in PayloadEnvelopes, v \in Versions : NewPayload(PayloadCaller, req, v)
    \/ NP_Probe(PayloadCaller)
    \/ NP_Lock(PayloadCaller)
    \/ NP_Enqueue(PayloadCaller)
    \/ NP_Recv(PayloadCaller)
    \/ ImporterTake
    \/ \E o \in ImporterOutcomes : ImporterReply(o)
    \/ ImporterWait

SpecPayload == Init /\ [][NextPayload]_vars

(***************************************************************************)
(* The status classifier, one call after another, over requests that meet  *)
(* each of its rules, on a node that may or may not have reached PoS sync  *)
(* and whose downloader may or may not be idle.                            *)
(***************************************************************************)
\* a block with a wrong number on top of A1, and a child of it
HdrW == Header(HashA1, 5, 20, 0, <<1>>, Some(<<>>), None)
HashW == HeaderHash(HdrW)
HdrWC == Header(HashW, 6, 22, 0, <<1>>, Some(<<>>), None)
HashWC == HeaderHash(HdrWC)

EnvT == Envelope(HashP, 1, 1, 0, <<>>, None, None, None, HashT)
EnvA1 == Envelope(HashT, 2, 10, 0, <<1>>, None, None, None, HashA1)
EnvW == Envelope(HashA1, 5, 20, 0, <<1>>, Some(<<>>), None, None, HashW)
EnvWC == Envelope(HashW, 6, 22, 0, <<1>>, Some(<<>>), None, None, HashWC)
\* A2 with another block's hash stated
EnvBadHash == [EnvA2 EXCEPT !.BlockHash = HashB2]

\* a block with a wrong number on top of the pre-merge block P
EnvPW == Envelope(HashP, 7, 1, 0, <<>>, None, None, None,
                  HeaderHash(Header(HashP, 7, 1, 0, <<>>, None, None)))

ClassifierPayloads == {EnvA2, EnvT, EnvPW, EnvA1, EnvW, EnvWC, EnvBadHash}

ClassifierForkchoices ==
    {FcPersisted, FcNew,
     ForkChoice(HashT, HashT, HashT),
     ForkChoice(HashP, HashP, HashP),
     ForkChoice(HashW, HashT, HashT),
     ForkChoice(HashWC, HashT, HashT),
     ForkChoice(HashB2, HashT, HashT)}

InitClassifier ==
    /\ lock = NoCaller
    /\ payloadId = 0
    /\ lastParameters = None
    /\ builders = <<>>
    /\ badHeaders = <<>>
    /\ requestList = <<>>
    /\ waiting \in BOOLEAN
    /\ processing = None
    /\ PayloadStatusCh = <<>>
    /\ call = [p \in Callers |-> IdleCall]
    /\ returned = IdleCall
    /\ calls = 0
    /\ buildLog = <<>>
    /\ config = [TerminalTotalDifficulty |-> Some(TerminalTotalDifficulty)]
    /\ proposing = TRUE
    /\ db = InitStore
    /\ posSync \in BOOLEAN
    /\ posStatus \in {Idle, Syncing}

NextClassifier ==
    \/ \E req \in ClassifierPayloads : NewPayload(PayloadCaller, req, CapellaVersion)
    \/ NP_Probe(PayloadCaller)
    \/ NP_Lock(PayloadCaller)
    \/ NP_Enqueue(PayloadCaller)
    \/ NP_Recv(PayloadCaller)
    \/ \E fc \in ClassifierForkchoices :
          ForkchoiceUpdated(PayloadCaller, fc, None, CapellaVersion)
    \/ FCU_Probe(PayloadCaller)
    \/ FCU_Lock(PayloadCaller)
    \/ FCU_Enqueue(PayloadCaller)
    \/ FCU_Recv(PayloadCaller)
    \/ FCU_Build(PayloadCaller)
    \/ ImporterTake
    \/ \E o \in ImporterOutcomes : ImporterReply(o)
    \/ ImporterWait

SpecClassifier == InitClassifier /\ [][NextClassifier]_vars

(***************************************************************************)
(* Forkchoice updates racing with a reorganisation: the canonical chain is *)
(* P <- T <- A1 <- A2 <- A3 and the side block B2 is known; the node may   *)
(* or may not be a proposer.                                               *)
(***************************************************************************)
AttrLate == Attributes(31, 1, Some(<<>>))

ReorgForkchoiceCalls ==
    {<<ForkChoice(HashA2, HashT, HashT), Some(AttrLate)>>,
     <<ForkChoice(HashA2, HashT, HashT), None>>,
     <<ForkChoice(HashB2, HashT, HashT), None>>}

InitReorg ==
    /\ InitServer
    /\ config = [TerminalTotalDifficulty |-> Some(TerminalTotalDifficulty)]
    /\ proposing \in BOOLEAN
    /\ db = [headers |-> AllHeaders, canonical |-> {HdrP, HdrT, HdrA1, HdrA2, HdrA3},
             head |-> HashA3, fcHead |-> HashA3, fcSafe |-> HashT,
             fcFinalized |-> HashT]
    /\ posSync = TRUE
    /\ posStatus = Idle

NextReorg ==
    \/ \E p \in Callers, fcu \in ReorgForkchoiceCalls :
          ForkchoiceUpdated(p, fcu[1], fcu[2], CapellaVersion)
    \/ \E p \in Callers : FCU_Probe(p)
    \/ \E p \in Callers : FCU_Lock(p)
    \/ \E p \in Callers : FCU_Enqueue(p)
    \/ \E p \in Callers : FCU_Recv(p)
    \/ \E p \in Callers : FCU_Build(p)
    \/ ImporterTake
    \/ \E o \in ImporterOutcomes : ImporterReply(o)
    \/ ImporterWait

SpecReorg == InitReorg /\ [][NextReorg]_vars

(***************************************************************************)
(* The builder registry, one call after another: builds requested with     *)
(* timestamps at, before and after the head's, on a proposer and on a      *)
(* server that is not one, and getPayload for ids inside and outside the   *)
(* registry.                                                               *)
(***************************************************************************)
AttrAtHead == Attributes(10, 1, None)
AttrBeforeHead == Attributes(9, 1, None)

RegistryForkchoiceCalls ==
    {<<fc, a>> : fc \in {FcPersisted, FcNew},
                 a \in {None, Some(AttrX), Some(AttrY), Some(AttrAtHead),
                        Some(AttrBeforeHead)}}

\* the ids asked for: 0, the ids the counter can reach, and ids above them
RegistryPayloadIds == {convertPayloadId(k) : k \in 0..(MaxBuilders + 2)}

\* the parameters of the build forkchoiceUpdated(FcPersisted, AttrX) starts
\* on a fresh proposer
FirstParameters ==
    [buildParameters(FcPersisted, AttrX, CapellaVersion, 0)
        EXCEPT !.PayloadId = nextPayloadId(0)]

\* a server after construction, or a proposer that has served
\* forkchoiceUpdated(FcPersisted, AttrX) and started its first build
InitRegistry ==
    /\ lock = NoCaller
    /\ requestList = <<>>
    /\ waiting = TRUE
    /\ processing = None
    /\ PayloadStatusCh = <<>>
    /\ call = [p \in Callers |-> IdleCall]
    /\ returned = IdleCall
    /\ calls = 0
    /\ badHeaders = <<>>
    /\ config = [TerminalTotalDifficulty |-> Some(TerminalTotalDifficulty)]
    /\ proposing \in BOOLEAN
    /\ db = InitStore
    /\ posSync = TRUE
    /\ posStatus = Idle
    /\ \/ /\ payloadId = 0
          /\ lastParameters = None
          /\ builders = <<>>
          /\ buildLog = <<>>
       \/ /\ proposing
          /\ payloadId = nextPayloadId(0)
          /\ lastParameters = Some(FirstParameters)
          /\ builders = [k \in {nextPayloadId(0)} |-> NewBlockBuilder(FirstParameters)]
          /\ buildLog = <<[norm |-> Normalised(FirstParameters),
                           wire |-> convertPayloadId(nextPayloadId(0)),
                           fresh |-> TRUE]>>

NextRegistry ==
    \/ NewPayload(PayloadCaller, EnvA2, CapellaVersion)
    \/ NP_Probe(PayloadCaller)
    \/ NP_Lock(PayloadCaller)
    \/ NP_Enqueue(PayloadCaller)
    \/ NP_Recv(PayloadCaller)
    \/ \E fcu \in RegistryForkchoiceCalls :
          ForkchoiceUpdated(PayloadCaller, fcu[1], fcu[2], CapellaVersion)
    \/ FCU_Probe(PayloadCaller)
    \/ FCU_Lock(PayloadCaller)
    \/ FCU_Enqueue(PayloadCaller)
    \/ FCU_Recv(PayloadCaller)
    \/ FCU_Build(PayloadCaller)
    \/ \E id \in RegistryPayloadIds : GetPayload(PayloadCaller, id)
    \/ GP_Lock(PayloadCaller)
    \/ GP_Get(PayloadCaller)
    \/ ImporterTake
    \/ \E o \in ImporterOutcomes : ImporterReply(o)
    \/ ImporterWait

SpecRegistry == InitRegistry /\ [][NextRegistry]_vars

(***************************************************************************)
(* Properties of the mutex, the importer queue and the builder registry.   *)
(***************************************************************************)
\* caller p has enqueued its request and has not yet taken its reply
InFlight(p) == call[p].pc \in {"np_recv", "fcu_recv"}
\* caller p waits for the mutex
AtLock(p) == call[p].pc \in {"np_lock", "fcu_lock", "gp_lock"}
\* caller p stands inside a section that reads or writes the registry
InRegistrySection(p) == call[p].pc \in {"fcu_build", "gp_get"}

\* C1: at most one importer operation is in flight; between a caller's
\* enqueue and its receipt nothing more is enqueued, and nobody but that
\* caller takes a reply from the channel.
C1_OneImporterOperationInFlight ==
    /\ [](Cardinality({p \in Callers : InFlight(p)}) <= 1)
    /\ [][\A p \in Callers : InFlight(p) =>
            /\ Len(requestList') <= Len(requestList)
            /\ (Len(PayloadStatusCh') < Len(PayloadStatusCh) => call'[p] # call[p])
            /\ \A q \in Callers \ {p} : InFlight(q)' = InFlight(q)]_vars

\* a caller is in flight while another caller waits for the mutex
C1_Witness == \E p, q \in Callers : p # q /\ InFlight(p) /\ AtLock(q)

\* C2: the reply a caller takes from the channel is the importer's answer
\* to that caller's own request.
C2_RepliesNotMisrouted ==
    /\ returned.replyFor # None => returned.replyFor = Some(returned.id)
    /\ \A p \in Callers : call[p].replyFor # None => call[p].replyFor = Some(call[p].id)
    /\ \A p \in Callers : InFlight(p) =>
            \/ \E i \in 1..Len(requestList) : requestList[i].id = call[p].id
            \/ (processing # None /\ processing[1].id = call[p].id)
            \/ (PayloadStatusCh # <<>> /\ Head(PayloadStatusCh).for = call[p].id)

\* a caller has returned the importer's reply to its request while another
\* caller was already waiting for the mutex
C2_Witness ==
    /\ returned.replyFor # None
    /\ returned.id > 1
    /\ \E q \in Callers : AtLock(q)

\* C3: the builder map, the payload-id counter and lastParameters are read and
\* written only by the request holding the mutex, and no two requests are
\* inside a section touching them at the same time.
C3_RegistryUnderMutex ==
    /\ [](\A p \in Callers : InRegistrySection(p) => lock = p)
    /\ [](Cardinality({p \in Callers : InRegistrySection(p)}) <= 1)
    /\ [][registryVars' # registryVars =>
            /\ lock \in Callers
            /\ InRegistrySection(lock)
            /\ call'[lock].pc = "idle"]_vars

\* getPayload is inside its section while a forkchoiceUpdated waits for the mutex
C3_Witness ==
    \E p, q \in Callers : call[p].pc = "gp_get" /\ call[q].pc = "fcu_lock"

\* the normalised parameters of the build request caller p carries
RequestNorm(p) ==
    [ParentHash |-> call[p].forkChoice.HeadHash,
     Timestamp |-> call[p].attributes[1].Timestamp,
     PrevRandao |-> call[p].attributes[1].PrevRandao,
     SuggestedFeeRecipient |-> call[p].attributes[1].SuggestedFeeRecipient,
     Withdrawals |-> IF call[p].version >= CapellaVersion
                     THEN call[p].attributes[1].Withdrawals ELSE None]

\* caller p, about to run the rest of forkchoiceUpdated, reaches the build step
ReachesBuildStep(p) ==
    /\ call[p].pc = "fcu_build"
    /\ call[p].attributes # None
    /\ call[p].status[1].Status = ValidStatus
    /\ proposing
    /\ db.head = call[p].forkChoice.HeadHash
    /\ ReadHeaderByHash(db.head)[1].Time < call[p].attributes[1].Timestamp
    /\ (RequestNorm(p).Withdrawals # None) = IsShanghai(call[p].attributes[1].Timestamp)

\* C4: a forkchoiceUpdated reaching the build step with normalised parameters
\* equal to those of lastParameters answers VALID with the existing payload
\* id, creates no builder and leaves the counter alone; two identical
\* requests on a fresh server both get id 1 and leave exactly one builder.
C4_Deduplication ==
    /\ [][\A p \in Callers :
            (/\ ReachesBuildStep(p)
             /\ call'[p].pc = "idle"
             /\ lastParameters # None
             /\ Normalised(lastParameters[1]) = RequestNorm(p))
            => /\ returned'.result =
                    ResultBuild(PayloadStatus(ValidStatus, Some(db.head), ""),
                                convertPayloadId(payloadId))
               /\ UNCHANGED registryVars]_vars
    /\ []((Len(buildLog) = 2 /\ buildLog[1].norm = buildLog[2].norm) =>
            /\ buildLog[1].wire = convertPayloadId(1)
            /\ buildLog[2].wire = convertPayloadId(1)
            /\ DOMAIN builders = {1}
            /\ payloadId = 1)

\* a repeated build request has just been answered with the id of the first
C4_Witness ==
    /\ Len(buildLog) = 2
    /\ buildLog[1].norm = buildLog[2].norm
    /\ returned.op = "ForkchoiceUpdated"
    /\ returned.result.payloadId = Some(convertPayloadId(1))

\* C5 as stated: any two build requests with the same normalised parameters
\* share one builder and one payload id, whatever was served between them.
C5_AnyTwoCalls ==
    \A i, j \in 1..Len(buildLog) :
        (i < j /\ buildLog[i].norm = buildLog[j].norm) =>
            /\ buildLog[i].wire = buildLog[j].wire
            /\ ~buildLog[j].fresh

\* C5: two build requests with the same normalised parameters and no build
\* request with other parameters between them share one builder and one
\* payload id; a build request whose parameters differ from those of the
\* build request before it gets a new builder.
C5_ConsecutiveCalls ==
    /\ \A i, j \in 1..Len(buildLog) :
        (i < j /\ \A k \in i..j : buildLog[k].norm = buildLog[i].norm) =>
            /\ buildLog[i].wire = buildLog[j].wire
            /\ \A k \in (i + 1)..j : ~buildLog[k].fresh
    /\ \A j \in 1..Len(buildLog) :
        (j = 1 \/ buildLog[j].norm # buildLog[j - 1].norm) => buildLog[j].fresh

\* a build request repeated after a different one came first
C5_Witness ==
    /\ Len(buildLog) = 3
    /\ buildLog[1].norm # buildLog[2].norm
    /\ buildLog[2].norm = buildLog[3].norm

\* C6: the builder map never holds more than MaxBuilders entries.
C6_BuildersBounded == Cardinality(DOMAIN builders) <= MaxBuilders

\* the map is full after more builders were created than it can hold
C6_Witness ==
    /\ Cardinality(DOMAIN builders) = MaxBuilders
    /\ payloadId > MaxBuilders

\* C7: payload ids are assigned in strictly increasing order and are never
\* zero; the counter never decreases; no response carries id zero.
C7_PayloadIdsIncrease ==
    /\ [](\A i \in 1..Len(buildLog) : BigEndianUint64(buildLog[i].wire) >= 1)
    /\ [](\A i, j \in 1..Len(buildLog) :
            (i < j /\ buildLog[j].fresh) =>
                BigEndianUint64(buildLog[j].wire) > BigEndianUint64(buildLog[i].wire))
    /\ [](returned.result.payloadId # None =>
            BigEndianUint64(returned.result.payloadId[1]) >= 1)
    /\ [](\A k \in DOMAIN builders : 1 <= k /\ k <= payloadId)
    /\ [][payloadId' >= payloadId]_vars
    /\ [][\A k \in DOMAIN builders' \ DOMAIN builders :
            k = payloadId' /\ k > payloadId /\ \A o \in DOMAIN builders : k > o]_vars

\* three builders were created one after another
C7_Witness ==
    /\ Len(buildLog) = 3
    /\ \A i \in 1..3 : buildLog[i].fresh
    /\ returned.result.payloadId = Some(convertPayloadId(3))

\* the builders a step removes from the map
Evicted == DOMAIN builders \ DOMAIN builders'

\* C8: when a builder is about to be inserted, eviction removes nothing from a
\* map with fewer than MaxBuilders entries, otherwise leaves at most
\* MaxBuilders - 1 of the old entries, and never removes an id while a
\* smaller id stays.
C8_EvictionOldestFirst ==
    [][payloadId' # payloadId =>
        /\ (Cardinality(DOMAIN builders) < MaxBuilders => Evicted = {})
        /\ Cardinality(DOMAIN builders \ Evicted) <= MaxBuilders - 1
        /\ (Cardinality(DOMAIN builders) >= MaxBuilders =>
                Cardinality(DOMAIN builders \ Evicted) = MaxBuilders - 1)
        /\ \A r \in Evicted : \A k \in DOMAIN builders \ Evicted : r < k
        /\ DOMAIN builders' = (DOMAIN builders \ Evicted) \cup {payloadId'}]_vars

\* the oldest builder has been evicted to make room for a new one
C8_Witness ==
    /\ payloadId > MaxBuilders
    /\ 1 \notin DOMAIN builders
    /\ \A k \in (payloadId - MaxBuilders + 1)..payloadId : k \in DOMAIN builders

(***************************************************************************)
(* Properties of the envelope checks of newPayload.                        *)
(***************************************************************************)
\* the call that has just returned was a newPayload
ReturnedNewPayload == returned.op = "NewPayload" /\ returned.pc = "done"

\* the request of the returned call is nowhere in the importer's hands
ReturnedNeverEnqueued ==
    /\ returned.replyFor = None
    /\ \A i \in 1..Len(requestList) : requestList[i].id # returned.id
    /\ (processing # None => processing[1].id # returned.id)
    /\ \A i \in 1..Len(PayloadStatusCh) : PayloadStatusCh[i].for # returned.id

\* the fork-gated fields as the method version reads them agree with the
\* forks active at the envelope's timestamp
GatedFieldsConsistent(req, version) ==
    /\ (newPayloadWithdrawals(req, version) # None) = IsShanghai(req.Timestamp)
    /\ (version >= DenebVersion /\ req.DataGasUsed # None) = IsCancun(req.Timestamp)
    /\ (version >= DenebVersion /\ req.ExcessDataGas # None) = IsCancun(req.Timestamp)

\* the fork-gated fields the envelope carries agree with the forks active at
\* its timestamp
EnvelopeFieldsConsistent(req) ==
    /\ (req.Withdrawals # None) = IsShanghai(req.Timestamp)
    /\ (req.DataGasUsed # None) = IsCancun(req.Timestamp)
    /\ (req.ExcessDataGas # None) = IsCancun(req.Timestamp)

\* the stated block hash differs from the hash of the reconstructed header
HashMismatch(req, version) == HeaderHash(newPayloadHeader(req, version)) # req.BlockHash

ReturnedForkchoiceUpdated == returned.op = "ForkchoiceUpdated" /\ returned.pc = "done"

\* caller p starts a forkchoiceUpdated in this step
StartsForkchoiceUpdated(p) ==
    /\ call[p].pc = "idle"
    /\ call'[p].op = "ForkchoiceUpdated"

\* a classifier rule ahead of the bad-header rule answers a request for hash
\* whose total difficulty is read from the block tdOf
EarlyRuleAnswers(forkChoice, tdOf) ==
    \/ repeatedForkchoice(forkChoice)
    \/ beforeTTD(ReadTdByHash(tdOf))
    \/ ~posSync

\* when the returned forkchoiceUpdated was called, its head was canonical at
\* its number and was not the head of the chain
ReturnedWasSideBranch ==
    /\ ReturnedForkchoiceUpdated
    /\ returned.canonicalAtCall
    /\ returned.headAtCall # returned.forkChoice.HeadHash

\* C11 as stated: a forkchoiceUpdated with attributes whose head is canonical
\* but not the current head when it is called returns VALID with
\* latestValidHash = head and no payload id; nothing is enqueued and no
\* builder is created.
C11_SideBranchAtCall ==
    (ReturnedWasSideBranch /\ returned.attributes # None) =>
        /\ returned.result =
            ResultStatus(PayloadStatus(ValidStatus, Some(returned.forkChoice.HeadHash), ""))
        /\ ReturnedNeverEnqueued

\* C11: a forkchoiceUpdated whose head, when the classifier runs, is canonical
\* at its number but not the current head, and that no earlier classifier rule
\* answers, gets VALID with latestValidHash = head from the classifier and is
\* never enqueued; with attributes, on a proposer, and with the head of the
\* chain still different from its head when it reads the chain head under the
\* mutex, it returns that status with no payload id, creates no builder and
\* leaves the counter alone.
C11_SideBranchSuppressed ==
    /\ [][\A p \in Callers :
            (/\ StartsForkchoiceUpdated(p)
             /\ IsCanonical(call'[p].forkChoice.HeadHash)
             /\ ReadHeadBlockHash # call'[p].forkChoice.HeadHash
             /\ ~EarlyRuleAnswers(Some(call'[p].forkChoice), call'[p].forkChoice.HeadHash)
             /\ ~IsBadHeaderPoS(call'[p].forkChoice.HeadHash)[1])
            => /\ call'[p].pc = "fcu_lock"
               /\ call'[p].status =
                    Some(PayloadStatus(ValidStatus, Some(call'[p].forkChoice.HeadHash), ""))]_vars
    /\ []((/\ ReturnedWasSideBranch
           /\ returned.status # None
           /\ returned.replyFor = None)
          => ReturnedNeverEnqueued)
    /\ [][\A p \in Callers :
            (/\ call[p].pc = "fcu_build"
             /\ call'[p].pc = "idle"
             /\ call[p].attributes # None
             /\ call[p].status[1].Status = ValidStatus
             /\ proposing
             /\ ReadHeadBlockHash # call[p].forkChoice.HeadHash)
            => /\ returned'.result = ResultStatus(call[p].status[1])
               /\ returned'.result.payloadId = None
               /\ UNCHANGED <<registryVars, buildLog>>]_vars

\* a side-branch forkchoiceUpdated with attributes has been answered on a
\* proposer without a payload id
C11_Witness ==
    /\ ReturnedWasSideBranch
    /\ returned.attributes # None
    /\ proposing
    /\ ReadHeadBlockHash # returned.forkChoice.HeadHash
    /\ returned.result =
        ResultStatus(PayloadStatus(ValidStatus, Some(returned.forkChoice.HeadHash), ""))
    /\ payloadId = 0

\* the forkchoice state equals the persisted forkchoice triple
TripleIsPersisted(forkChoice) ==
    forkChoice = ForkChoice(db.fcHead, db.fcSafe, db.fcFinalized)

\* the request of caller p is nowhere in the importer's hands
NotEnqueued(p) ==
    /\ \A i \in 1..Len(requestList) : requestList[i].id # call[p].id
    /\ (processing # None => processing[1].id # call[p].id)
    /\ \A i \in 1..Len(PayloadStatusCh) : PayloadStatusCh[i].for # call[p].id

\* C12: a forkchoiceUpdated whose triple equals the persisted triple is
\* answered VALID with latestValidHash = head by the classifier whatever the
\* total difficulty, the PoS-sync state, the bad-header memory and the busy
\* probe would say, it is never enqueued, and without attributes that status
\* is what the call returns.
C12_RepeatedForkchoice ==
    /\ [][\A p \in Callers :
            (StartsForkchoiceUpdated(p) /\ TripleIsPersisted(call'[p].forkChoice))
            => /\ call'[p].pc = "fcu_lock"
               /\ call'[p].status =
                    Some(PayloadStatus(ValidStatus, Some(call'[p].forkChoice.HeadHash), ""))]_vars
    /\ [](\A p \in Callers :
            (call[p].op = "ForkchoiceUpdated" /\ call[p].status # None
             /\ call[p].replyFor = None)
            => (call[p].pc \in {"fcu_lock", "fcu_build"} /\ NotEnqueued(p)))
    /\ [][\A p \in Callers :
            (call[p].pc = "fcu_build" /\ call'[p].pc = "idle"
             /\ call[p].replyFor = None /\ call[p].attributes = None)
            => (returned'.result = ResultStatus(call[p].status[1])
                /\ UNCHANGED importerVars)]_vars

\* a repeated forkchoice has been answered VALID on a node that has not
\* reached PoS sync and whose stage loop is busy
C12_Witness ==
    /\ ReturnedForkchoiceUpdated
    /\ TripleIsPersisted(returned.forkChoice)
    /\ returned.result =
        ResultStatus(PayloadStatus(ValidStatus, Some(returned.forkChoice.HeadHash), ""))
    /\ returned.replyFor = None
    /\ ~posSync
    /\ ~waiting

\* the returned newPayload passed the envelope checks
ReturnedPassedEnvelopeChecks ==
    /\ ReturnedNewPayload
    /\ newPayloadCheck(returned.payload, returned.version) = NoResult

\* the total difficulty of the parent of the returned newPayload is known and
\* below the terminal total difficulty
ReturnedParentBeforeTTD ==
    /\ ReadTdByHash(returned.payload.ParentHash) # None
    /\ ReadTdByHash(returned.payload.ParentHash)[1] < TerminalTotalDifficulty

\* C13: a newPayload that passes the envelope checks and whose parent's total
\* difficulty is known and strictly below TTD is answered INVALID with
\* latestValidHash = the zero hash, also when the node has not reached PoS
\* sync and when a later classifier rule would apply; nothing is enqueued.
C13_PreMergeRejection ==
    (ReturnedPassedEnvelopeChecks /\ ReturnedParentBeforeTTD) =>
        /\ returned.result = ResultStatus(PayloadStatus(InvalidStatus, Some(ZeroHash), ""))
        /\ ReturnedNeverEnqueued

\* a pre-merge newPayload with a wrong block number has been answered INVALID
\* with the zero hash on a node that has not reached PoS sync
C13_Witness ==
    /\ ReturnedPassedEnvelopeChecks
    /\ ReturnedParentBeforeTTD
    /\ returned.payload.BlockNumber # 1
    /\ ~posSync
    /\ returned.result.status.Status = InvalidStatus
    /\ returned.result.status.LatestValidHash = Some(ZeroHash)

\* a call is admitted in this step
Started == calls' = calls + 1
\* the call admitted in this step, as it stands after the step
StartedCall ==
    IF returned'.pc = "done" THEN returned'
    ELSE call'[CHOOSE p \in Callers : call'[p].id = calls']

\* the newPayload admitted in this step passes the envelope checks and is
\* answered by no classifier rule ahead of the block-number rule
ReachesBlockNumberRule ==
    /\ Started
    /\ StartedCall.op = "NewPayload"
    /\ newPayloadCheck(StartedCall.payload, StartedCall.version) = NoResult
    /\ ~EarlyRuleAnswers(None, StartedCall.payload.ParentHash)

\* C14: a newPayload that reaches the block-number rule with a known parent
\* and a block number other than parent.number + 1 has (blockHash,
\* parent.hash) recorded in the bad-header memory by the time it is answered,
\* the answer is INVALID with latestValidHash = parent.hash and validation
\* error "invalid block number", and the importer is not contacted;
\* forkchoiceUpdated never takes this rule.
C14_InvalidBlockNumber ==
    /\ [][(/\ ReachesBlockNumberRule
           /\ ReadHeaderByHash(StartedCall.payload.ParentHash) # None
           /\ StartedCall.payload.BlockNumber #
                ReadHeaderByHash(StartedCall.payload.ParentHash)[1].Number + 1)
          => /\ returned'.pc = "done"
             /\ returned'.result =
                    ResultStatus(PayloadStatus(InvalidStatus,
                                               Some(StartedCall.payload.ParentHash),
                                               "invalid block number"))
             /\ StartedCall.payload.BlockHash \in DOMAIN badHeaders'
             /\ badHeaders'[StartedCall.payload.BlockHash] = StartedCall.payload.ParentHash
             /\ UNCHANGED importerVars]_vars
    /\ [][(Started /\ StartedCall.op = "ForkchoiceUpdated") => badHeaders' = badHeaders]_vars
    /\ [](ReturnedForkchoiceUpdated =>
            returned.result.status.ValidationError # "invalid block number")

\* a newPayload with a wrong block number has been answered and its hash is
\* in the bad-header memory with its parent's hash
C14_Witness ==
    /\ ReturnedNewPayload
    /\ returned.result.status.ValidationError = "invalid block number"
    /\ returned.payload.BlockHash \in DOMAIN badHeaders
    /\ badHeaders[returned.payload.BlockHash] = HashA1

\* the newPayload admitted in this step passes the envelope checks, so the
\* classifier runs for it
ClassifiesNewPayload ==
    /\ Started
    /\ StartedCall.op = "NewPayload"
    /\ newPayloadCheck(StartedCall.payload, StartedCall.version) = NoResult

\* INVALID with the last valid hash lvh and no validation error
InvalidWith(lvh) == PayloadStatus(InvalidStatus, Some(lvh), "")

\* C15: a request for a block hash in the bad-header memory is answered
\* INVALID with the remembered last valid hash, by newPayload and by
\* forkchoiceUpdated; a newPayload whose hash is not bad but whose parent is
\* has its hash recorded with the parent's last valid hash and is answered
\* INVALID with that hash; in both cases nothing is enqueued to the importer.
C15_KnownBadHeaders ==
    /\ [][(ClassifiesNewPayload /\ StartedCall.payload.BlockHash \in DOMAIN badHeaders)
          => /\ returned'.pc = "done"
             /\ returned'.result.status.Status = InvalidStatus
             /\ returned'.result.status.LatestValidHash =
                    Some(badHeaders[StartedCall.payload.BlockHash])
             /\ UNCHANGED importerVars]_vars
    /\ [][(/\ ClassifiesNewPayload
           /\ StartedCall.payload.BlockHash \notin DOMAIN badHeaders
           /\ StartedCall.payload.ParentHash \in DOMAIN badHeaders)
          => /\ returned'.pc = "done"
             /\ returned'.result =
                    ResultStatus(InvalidWith(badHeaders[StartedCall.payload.ParentHash]))
             /\ StartedCall.payload.BlockHash \in DOMAIN badHeaders'
             /\ badHeaders'[StartedCall.payload.BlockHash] =
                    badHeaders[StartedCall.payload.ParentHash]
             /\ UNCHANGED importerVars]_vars
    /\ [][(/\ Started
           /\ StartedCall.op = "ForkchoiceUpdated"
           /\ StartedCall.forkChoice.HeadHash \in DOMAIN badHeaders)
          => /\ StartedCall.status =
                    Some(InvalidWith(badHeaders[StartedCall.forkChoice.HeadHash]))
             /\ UNCHANGED importerVars]_vars
    /\ [](\A p \in Callers :
            (call[p].op = "ForkchoiceUpdated" /\ call[p].status # None
                /\ call[p].status[1].Status = InvalidStatus) => NotEnqueued(p))
    /\ [](\A h \in DOMAIN badHeaders :
            (ReturnedForkchoiceUpdated /\ returned.forkChoice.HeadHash = h) =>
                /\ returned.result = ResultStatus(InvalidWith(badHeaders[h]))
                /\ ReturnedNeverEnqueued)

\* after the child of a bad block was submitted and remembered with its
\* parent's last valid hash, a forkchoiceUpdated to the child has been
\* answered INVALID with that hash
C15_Witness ==
    /\ ReturnedForkchoiceUpdated
    /\ returned.forkChoice.HeadHash = HashWC
    /\ returned.result = ResultStatus(InvalidWith(HashA1))
    /\ HashW \in DOMAIN badHeaders
    /\ HashWC \in DOMAIN badHeaders
    /\ badHeaders[HashWC] = badHeaders[HashW]

\* C16 as stated: every INVALID reply to a newPayload for block hash H leaves
\* H recorded in the bad-header memory.
C16_EveryInvalidRecorded ==
    (ReturnedNewPayload /\ returned.result.status.Status = InvalidStatus) =>
    returned.payload.BlockHash \in DOMAIN badHeaders

\* C16: an INVALID reply of the invalid-block-number rule or of the known-bad
\* rule leaves H recorded in the bad-header memory with the last valid hash
\* of the reply, while a newPayload answered by an envelope check or by a
\* rule ahead of these records nothing; a recorded hash stays recorded; and a
\* later newPayload for H that reaches the classifier, or forkchoiceUpdated
\* with head H, that no earlier classifier rule answers is answered INVALID
\* without being enqueued to the importer.
C16_InvalidRepliesRecorded ==
    /\ [][(/\ ClassifiesNewPayload
           /\ ~EarlyRuleAnswers(None, StartedCall.payload.ParentHash)
           /\ returned'.pc = "done"
           /\ returned'.result.status.Status = InvalidStatus)
          => /\ StartedCall.payload.BlockHash \in DOMAIN badHeaders'
             /\ Some(badHeaders'[StartedCall.payload.BlockHash]) =
                    returned'.result.status.LatestValidHash]_vars
    /\ [][(/\ Started
           /\ StartedCall.op = "NewPayload"
           /\ \/ newPayloadCheck(StartedCall.payload, StartedCall.version) # NoResult
              \/ EarlyRuleAnswers(None, StartedCall.payload.ParentHash))
          => badHeaders' = badHeaders]_vars
    /\ [][\A h \in DOMAIN badHeaders :
            h \in DOMAIN badHeaders' /\ badHeaders'[h] = badHeaders[h]]_vars
    /\ [][(/\ ClassifiesNewPayload
           /\ ~EarlyRuleAnswers(None, StartedCall.payload.ParentHash)
           /\ StartedCall.payload.BlockHash \in DOMAIN badHeaders)
          => /\ returned'.pc = "done"
             /\ returned'.result.status.Status = InvalidStatus
             /\ UNCHANGED importerVars]_vars
    /\ [][(/\ Started
           /\ StartedCall.op = "ForkchoiceUpdated"
           /\ ~EarlyRuleAnswers(Some(StartedCall.forkChoice),
                                StartedCall.forkChoice.HeadHash)
           /\ StartedCall.forkChoice.HeadHash \in DOMAIN badHeaders)
          => /\ StartedCall.status # None
             /\ StartedCall.status[1].Status = InvalidStatus
             /\ UNCHANGED importerVars]_vars

\* a block was answered INVALID for its number and recorded, and a later
\* forkchoiceUpdated to it has been answered INVALID without the importer
C16_Witness ==
    /\ ReturnedForkchoiceUpdated
    /\ returned.forkChoice.HeadHash = HashW
    /\ returned.result.status.Status = InvalidStatus
    /\ ReturnedNeverEnqueued
    /\ HashW \in DOMAIN badHeaders

\* caller p takes the importer's reply from the channel in this step
TakesReply(p) ==
    /\ call[p].pc \in {"np_recv", "fcu_recv"}
    /\ PayloadStatusCh # <<>>
    /\ PayloadStatusCh' = Tail(PayloadStatusCh)

\* C17 as stated, its last clause: every call answered by an importer reply
\* without a critical error returns a PayloadStatus, not an error.
C17_EveryReplyReturned ==
    (returned.pc = "done" /\ returned.replyFor # None
        /\ returned.result.err # ErrCritical)
    => returned.result.err = ""

\* C17: when the importer's reply carries a critical error, newPayload and
\* forkchoiceUpdated return that error and no PayloadStatus, no builder is
\* created even with attributes, and the mutex is released; a reply without
\* a critical error is returned as the PayloadStatus by newPayload, and by
\* forkchoiceUpdated when it has no attributes or the status is not VALID;
\* a forkchoiceUpdated with attributes and a VALID reply goes on to the
\* build steps and returns their error or a VALID PayloadStatus.
C17_CriticalError ==
    /\ [][\A p \in Callers :
            (TakesReply(p) /\ Head(PayloadStatusCh).status.CriticalError # "")
            => /\ returned'.id = call[p].id
               /\ returned'.pc = "done"
               /\ returned'.result =
                      ResultError(Head(PayloadStatusCh).status.CriticalError)
               /\ lock' = NoCaller
               /\ UNCHANGED registryVars]_vars
    /\ [][\A p \in Callers :
            (/\ TakesReply(p)
             /\ call[p].pc = "np_recv"
             /\ Head(PayloadStatusCh).status.CriticalError = "")
            => /\ returned'.id = call[p].id
               /\ returned'.result = ResultStatus(Head(PayloadStatusCh).status)
               /\ lock' = NoCaller]_vars
    /\ [][\A p \in Callers :
            (/\ TakesReply(p)
             /\ call[p].pc = "fcu_recv"
             /\ Head(PayloadStatusCh).status.CriticalError = "")
            => /\ call'[p].pc = "fcu_build"
               /\ call'[p].status = Some(Head(PayloadStatusCh).status)]_vars
    /\ [](ReturnedForkchoiceUpdated /\ returned.replyFor # None
            /\ returned.result.err # ErrCritical
          => /\ lock = NoCaller
             /\ IF returned.attributes = None
                   \/ returned.status[1].Status # ValidStatus
                THEN returned.result = ResultStatus(returned.status[1])
                ELSE \/ returned.result.err # ""
                     \/ returned.result.status.Status = ValidStatus)

\* a forkchoiceUpdated with attributes has returned the importer's critical
\* error: no status, no payload id, no builder started for it, mutex free
C17_Witness ==
    /\ ReturnedForkchoiceUpdated
    /\ returned.attributes # None
    /\ returned.replyFor # None
    /\ returned.result = ResultError(ErrCritical)
    /\ lock = NoCaller
    /\ \A i \in 1..Len(buildLog) : buildLog[i].wire # convertPayloadId(payloadId + 1)

\* a call returns in this step
ReturnsNow == returned'.pc = "done" /\ returned'.id # returned.id

\* C18 as stated, for forkchoiceUpdated: a forkchoiceUpdated without
\* attributes whose status the classifier decided never waits for the mutex
\* while another request holds it.
C18_DecidedNeverWaits ==
    \A p \in Callers :
        ~(/\ call[p].op = "ForkchoiceUpdated"
          /\ call[p].pc = "fcu_lock"
          /\ call[p].status # None
          /\ call[p].attributes = None
          /\ lock # NoCaller)

\* C18: the classifier runs without the server mutex; a newPayload whose
\* status the classifier decides returns it without acquiring the mutex,
\* whoever holds it; every forkchoiceUpdated acquires the mutex after the
\* classifier, decided or not, and returns holding and releasing it.
C18_ClassifierOutsideMutex ==
    /\ [](\A p \in Callers :
            call[p].pc \in {"np_probe", "np_lock", "fcu_probe", "fcu_lock", "gp_lock"}
            => lock # p)
    /\ [][(ReturnsNow /\ returned'.op = "NewPayload" /\ returned'.replyFor = None)
          => /\ UNCHANGED lock
             /\ \A p \in Callers : call[p].id = returned'.id => lock # p]_vars
    /\ [][(ReturnsNow /\ returned'.op = "NewPayload" /\ returned'.replyFor # None)
          => \E p \in Callers :
                call[p].id = returned'.id /\ lock = p /\ lock' = NoCaller]_vars
    /\ [][(ReturnsNow /\ returned'.op = "ForkchoiceUpdated")
          => \E p \in Callers :
                call[p].id = returned'.id /\ lock = p /\ lock' = NoCaller]_vars

\* a newPayload has returned the status the classifier decided while another
\* caller holds the mutex and awaits the importer's reply
C18_Witness ==
    /\ ReturnedNewPayload
    /\ returned.replyFor = None
    /\ returned.result.status.Status # ""
    /\ lock # NoCaller
    /\ call[lock].pc \in {"np_recv", "fcu_recv"}

ReturnedGetPayload == returned.op = "GetPayload" /\ returned.pc = "done"

ReachesTimestampTest(p) ==
    /\ call[p].pc = "fcu_build"
    /\ call'[p].pc = "idle"
    /\ call[p].attributes # None
    /\ call[p].status[1].Status = ValidStatus
    /\ proposing
    /\ ReadHeadBlockHash = call[p].forkChoice.HeadHash

\* C20: a proposer's forkchoiceUpdated with VALID status whose head is the
\* chain head fails with INVALID_PAYLOAD_ATTRIBUTES, with no payload id and
\* no builder, when the attributes' timestamp is at or before the head
\* header's; a later timestamp is not refused for its timestamp, and the
\* call returns VALID with a payload id once the withdrawals test passes.
C20_TimestampNotAfterHead ==
    [][\A p \in Callers :
        ReachesTimestampTest(p) =>
        LET headTime == ReadHeaderByHash(ReadHeadBlockHash)[1].Time
            timestamp == call[p].attributes[1].Timestamp
        IN  /\ returned'.id = call[p].id
            /\ IF timestamp <= headTime
               THEN /\ returned'.result = ResultError(ErrInvalidPayloadAttributes)
                    /\ UNCHANGED registryVars
               ELSE /\ returned'.result.err # ErrInvalidPayloadAttributes
                    /\ checkWithdrawalsPresence(timestamp,
                            buildParameters(call[p].forkChoice, call[p].attributes[1],
                                            call[p].version, payloadId).Withdrawals) = ""
                       => /\ returned'.result.err = ""
                          /\ returned'.result.status.Status = ValidStatus
                          /\ returned'.result.payloadId # None]_vars

\* a build was asked for with the head's own timestamp and refused
C20_Witness ==
    /\ ReturnedForkchoiceUpdated
    /\ returned.attributes = Some(AttrAtHead)
    /\ returned.status[1].Status = ValidStatus
    /\ returned.forkChoice.HeadHash = ReadHeadBlockHash
    /\ ReadHeaderByHash(ReadHeadBlockHash)[1].Time = AttrAtHead.Timestamp
    /\ returned.result = ResultError(ErrInvalidPayloadAttributes)
    /\ returned.result.payloadId = None

(***************************************************************************)
(* Properties of the proposer switch, the payload ids and the importer's   *)
(* availability.                                                           *)
(***************************************************************************)
\* C21: with the proposer switch disabled every getPayload returns the
\* not-a-proposer error, no forkchoiceUpdated returns a payload id, the
\* builder map stays empty and the payload-id counter stays 0.
C21_ProposerDisabled ==
    ~proposing =>
        /\ builders = <<>>
        /\ payloadId = 0
        /\ lastParameters = None
        /\ ReturnedGetPayload => returned.result = ResultError(ErrNotProposer)
        /\ ReturnedForkchoiceUpdated => returned.result.payloadId = None
        /\ (ReturnedForkchoiceUpdated /\ returned.attributes # None
                /\ returned.status # None
                /\ returned.status[1].Status = ValidStatus
                /\ returned.status[1].CriticalError = "")
           => returned.result = ResultError(ErrNotProposer)

\* on a server that is not a proposer a forkchoiceUpdated with attributes
\* and a VALID status, head at the chain head and a timestamp after the
\* head's, has been refused
C21_Witness ==
    /\ ~proposing
    /\ ReturnedForkchoiceUpdated
    /\ returned.attributes = Some(AttrX)
    /\ returned.status[1].Status = ValidStatus
    /\ returned.forkChoice.HeadHash = ReadHeadBlockHash
    /\ returned.result = ResultError(ErrNotProposer)

(***************************************************************************)
(* The payload body reader: GetPayloadBodiesByHashV1 and                   *)
(* GetPayloadBodiesByRangeV1 over the blocks of the chain store.  Both     *)
(* read inside one read-only transaction and take no mutex.                *)
(***************************************************************************)
\* the cap on the hashes or the count of one request
MaxPayloadBodies == 1024

\* a transaction as the store holds it, decoded from its binary form
Transaction(raw) == [data |-> raw]
\* tx.MarshalBinary: the binary form back
MarshalBinary(tx) == tx.data

\* types.Block: the header with its transactions and withdrawals
Block(header, raws, withdrawals) ==
    [header |-> header,
     transactions |-> [i \in 1..Len(raws) |-> Transaction(raws[i])],
     withdrawals |-> withdrawals]

\* a chain G <- C1 <- C2 <- C3 with the side block D2, whose bodies differ
BlkG == Block(Header(ZeroHash, 0, 0, 0, <<>>, None, None), <<>>, None)
BlkC1 == Block(Header(HeaderHash(BlkG.header), 1, 10, 0, <<1>>, None, None),
               <<1>>, None)
BlkC2 == Block(Header(HeaderHash(BlkC1.header), 2, 20, 0, <<1, 1>>, Some(<<>>), None),
               <<1, 1>>, Some(<<>>))
BlkD2 == Block(Header(HeaderHash(BlkC1.header), 2, 21, 1, <<1, 1, 1>>, Some(<<5>>), None),
               <<1, 1, 1>>, Some(<<5>>))
BlkC3 == Block(Header(HeaderHash(BlkC2.header), 3, 30, 0, <<>>, Some(<<7>>), None),
               <<>>, Some(<<7>>))

BlockHash(b) == HeaderHash(b.header)

\* a store with the canonical chain canon and the blocks held in full
BodiesStore(canon, blocks) ==
    LET top == CHOOSE b \in canon : \A c \in canon : c.header.Number <= b.header.Number
    IN  [headers |-> {b.header : b \in canon \cup blocks},
         canonical |-> {b.header : b \in canon},
         head |-> BlockHash(top), fcHead |-> BlockHash(top),
         fcSafe |-> BlockHash(BlkG), fcFinalized |-> BlockHash(BlkG),
         blocks |-> blocks]

\* the whole chain; a chain that ends at C1; canonical headers whose blocks
\* have not arrived above C1; and a canonical chain with the block C2 missing
BodiesStores ==
    {BodiesStore({BlkG, BlkC1, BlkC2, BlkC3}, {BlkG, BlkC1, BlkC2, BlkD2, BlkC3}),
     BodiesStore({BlkG, BlkC1}, {BlkG, BlkC1, BlkD2}),
     BodiesStore({BlkG, BlkC1, BlkC2, BlkC3}, {BlkG, BlkC1}),
     BodiesStore({BlkG, BlkC1, BlkC2, BlkC3}, {BlkG, BlkC1, BlkC3})}

\* blockReader.BlockByHash: nil when the store has no such block
BlockByHash(hash) ==
    LET found == {b \in db.blocks : BlockHash(b) = hash}
    IN  IF found = {} THEN None ELSE Some(CHOOSE b \in found : TRUE)

\* blockReader.BlockWithSenders: nil when the store has no such block
BlockWithSenders(hash, number) ==
    LET found == {b \in db.blocks : BlockHash(b) = hash /\ b.header.Number = number}
    IN  IF found = {} THEN None ELSE Some(CHOOSE b \in found : TRUE)

\* rawdb.ReadCanonicalHash: the zero hash when the number has none
ReadCanonicalHash(number) == CanonicalHash(number)

\* engine_types.ExecutionPayloadBodyV1, nil for a nil block
extractPayloadBodyFromBlock(block) ==
    IF block = None THEN None
    ELSE Some([Transactions |->
                    [i \in 1..Len(block[1].transactions) |->
                        MarshalBinary(block[1].transactions[i])],
               Withdrawals |-> block[1].withdrawals])

\* a loop that puts a nil entry where the canonical hash is missing
RECURSIVE rangeLoopPadded(_, _, _, _)
rangeLoopPadded(start, count, i, bodies) ==
    IF i >= count THEN bodies
    ELSE LET hash == ReadCanonicalHash(start + i)
         IN  rangeLoopPadded(start, count, i + 1,
                Append(bodies,
                       IF hash = ZeroHash THEN None
                       ELSE extractPayloadBodyFromBlock(
                                BlockWithSenders(hash, start + i))))
\* the loop of getPayloadBodiesByRange from index i on
RECURSIVE rangeLoop(_, _, _, _)
rangeLoop(start, count, i, bodies) ==
    IF i >= count THEN bodies
    ELSE LET hash == ReadCanonicalHash(start + i)
         IN  IF hash = ZeroHash THEN bodies
             ELSE rangeLoop(start, count, i + 1,
                    Append(bodies,
                           extractPayloadBodyFromBlock(
                                BlockWithSenders(hash, start + i))))

getPayloadBodiesByRange(start, count) == rangeLoop(start, count, 0, <<>>)

\* a reader that leaves out the hashes the store does not have
IsBody(body) == body # None
getPayloadBodiesByHashCompact(request) ==
    SelectSeq([hashIdx \in 1..Len(request) |->
                    extractPayloadBodyFromBlock(BlockByHash(request[hashIdx]))],
              IsBody)
\* bodies := make(..., len(request)); bodies[hashIdx] = body for every index
getPayloadBodiesByHash(request) ==
    [hashIdx \in 1..Len(request) |->
        extractPayloadBodyFromBlock(BlockByHash(request[hashIdx]))]

\* the parameter checks with the size test first
rangeParamsCheckSizeFirst(start, count) ==
    IF count > MaxPayloadBodies THEN ErrTooLargeRequest
    ELSE IF start = 0 \/ count = 0 THEN ErrInvalidParams
    ELSE ""
\* the parameter checks of GetPayloadBodiesByRangeV1, "" when they pass
rangeParamsCheck(start, count) ==
    IF start = 0 \/ count = 0 THEN ErrInvalidParams
    ELSE IF count > MaxPayloadBodies THEN ErrTooLargeRequest
    ELSE ""

GetPayloadBodiesByRangeV1(p, start, count) ==
    /\ CanStart(p)
    /\ calls' = calls + 1
    /\ LET c == [IdleCall EXCEPT !.op = "GetPayloadBodiesByRange", !.id = calls + 1,
                                 !.start = start, !.count = count]
       IN  IF rangeParamsCheck(start, count) # ""
           THEN Return(p, c, ResultError(rangeParamsCheck(start, count)))
           ELSE Return(p, [c EXCEPT !.readTx = TRUE],
                       ResultBodies(getPayloadBodiesByRange(start, count)))
    /\ UNCHANGED <<serverVars, db, badHeaders, importerVars, envVars, buildLog>>

GetPayloadBodiesByHashV1(p, hashes) ==
    /\ CanStart(p)
    /\ calls' = calls + 1
    /\ LET c == [IdleCall EXCEPT !.op = "GetPayloadBodiesByHash", !.id = calls + 1,
                                 !.hashes = hashes]
       IN  IF Len(hashes) > MaxPayloadBodies
           THEN Return(p, c, ResultError(ErrTooLargeRequest))
           ELSE Return(p, [c EXCEPT !.readTx = TRUE],
                       ResultBodies(getPayloadBodiesByHash(hashes)))
    /\ UNCHANGED <<serverVars, db, badHeaders, importerVars, envVars, buildLog>>

\* requests at and around the limits of the parameter checks
BodiesStarts == {0, 1, 2, 3, 4, 1000000}
BodiesCounts == {0, 1, 2, 3, MaxPayloadBodies, MaxPayloadBodies + 1}

\* a hash no block has
HashUnknown == 9999

Repeat(hash, n) == [i \in 1..n |-> hash]

BodiesHashLists ==
    {<<>>, <<BlockHash(BlkC1)>>, <<BlockHash(BlkC2), BlockHash(BlkC2)>>,
     <<BlockHash(BlkD2), HashUnknown, BlockHash(BlkC3)>>,
     <<HashUnknown, BlockHash(BlkC3), BlockHash(BlkG), HashUnknown>>,
     Repeat(BlockHash(BlkC1), MaxPayloadBodies),
     Repeat(BlockHash(BlkC1), MaxPayloadBodies + 1)}

InitBodies ==
    /\ InitServer
    /\ config = [TerminalTotalDifficulty |-> Some(TerminalTotalDifficulty)]
    /\ proposing = TRUE
    /\ db \in BodiesStores
    /\ posSync = TRUE
    /\ posStatus = Idle

NextBodies ==
    \/ \E p \in Callers, start \in BodiesStarts, count \in BodiesCounts :
          GetPayloadBodiesByRangeV1(p, start, count)
    \/ \E p \in Callers, hashes \in BodiesHashLists :
          GetPayloadBodiesByHashV1(p, hashes)

SpecBodies == InitBodies /\ [][NextBodies]_vars

(***************************************************************************)
(* Properties of the payload body reader.                                  *)
(***************************************************************************)
ReturnedBodiesByRange == returned.op = "GetPayloadBodiesByRange" /\ returned.pc = "done"
ReturnedBodiesByHash == returned.op = "GetPayloadBodiesByHash" /\ returned.pc = "done"

\* C22: GetPayloadBodiesByRangeV1 fails with INVALID_PARAMS when start or
\* count is 0, also when count is above 1024, and with TOO_LARGE_REQUEST
\* when count is above 1024 and neither is 0; in both cases no read
\* transaction is opened.
C22_RangeParameterChecks ==
    ReturnedBodiesByRange =>
        /\ (returned.start = 0 \/ returned.count = 0)
           => /\ returned.result = ResultError(ErrInvalidParams)
              /\ ~returned.readTx
        /\ (returned.start # 0 /\ returned.count > 1024)
           => /\ returned.result = ResultError(ErrTooLargeRequest)
              /\ ~returned.readTx
        /\ (returned.start # 0 /\ returned.count # 0 /\ returned.count <= 1024)
           => /\ returned.result.err = ""
              /\ returned.readTx

\* start = 1, count = 1025 has been refused as too large
C22_Witness ==
    /\ ReturnedBodiesByRange
    /\ returned.start = 1
    /\ returned.count = 1025
    /\ returned.result = ResultError(ErrTooLargeRequest)
    /\ ~returned.readTx

\* the returned range request passed its parameter checks
ReturnedRangeServed ==
    /\ ReturnedBodiesByRange
    /\ returned.start > 0
    /\ returned.count > 0
    /\ returned.count <= 1024

\* how many consecutive block numbers from start on, fewer than count, have
\* a canonical hash
CanonicalRun(start, count) ==
    CHOOSE n \in 0..count :
        /\ \A j \in 0..(n - 1) : \E h \in db.canonical : h.Number = start + j
        /\ n < count => ~\E h \in db.canonical : h.Number = start + n

\* the body of the canonical block with this number as the store holds it,
\* null when the store does not hold the block
CanonicalBody(number) ==
    LET held == {b \in db.blocks : b.header \in db.canonical /\ b.header.Number = number}
    IN  IF held = {} THEN None
        ELSE LET b == CHOOSE x \in held : TRUE
             IN  Some([Transactions |->
                            [j \in 1..Len(b.transactions) |-> b.transactions[j].data],
                       Withdrawals |-> b.withdrawals])

\* C23 as stated: every entry of a served range is the body of the
\* canonical block at its number.
C23_EveryEntryIsABody ==
    ReturnedRangeServed =>
        \A i \in 1..Len(returned.result.bodies[1]) :
            returned.result.bodies[1][i] # None

\* C23: a served range request returns a compact, ordered list: its length
\* is the number of consecutive block numbers from start, within the range,
\* that have a canonical hash; entry i is the body of the canonical block
\* at start + i, or null when the store holds the canonical hash but not
\* the block; nothing at or after the first gap is returned.
C23_RangeCompactOrdered ==
    ReturnedRangeServed =>
        /\ returned.result.err = ""
        /\ returned.result.bodies # None
        /\ Len(returned.result.bodies[1]) = CanonicalRun(returned.start, returned.count)
        /\ \A i \in 1..Len(returned.result.bodies[1]) :
                returned.result.bodies[1][i] = CanonicalBody(returned.start + i - 1)

\* a range that runs past the end of the canonical chain has been served
\* with the bodies up to the gap, in order
C23_Witness ==
    /\ ReturnedRangeServed
    /\ returned.start = 2
    /\ returned.count = 1024
    /\ db.blocks = {BlkG, BlkC1, BlkC2, BlkD2, BlkC3}
    /\ returned.result.bodies =
            Some(<<Some([Transactions |-> <<1, 1>>, Withdrawals |-> Some(<<>>)]),
                   Some([Transactions |-> <<>>, Withdrawals |-> Some(<<7>>)])>>)

\* the body of the block with this hash as the store holds it, null when
\* the store has no such block
StoredBody(hash) ==
    LET held == {b \in db.blocks : HeaderHash(b.header) = hash}
    IN  IF held = {} THEN None
        ELSE LET b == CHOOSE x \in held : TRUE
             IN  Some([Transactions |->
                            [j \in 1..Len(b.transactions) |-> b.transactions[j].data],
                       Withdrawals |-> b.withdrawals])

\* C24: GetPayloadBodiesByHashV1 with at most 1024 hashes returns a list of
\* the input's length whose entry i is null iff the store has no block for
\* hash i and otherwise is the body of that block; with more than 1024
\* hashes it fails with TOO_LARGE_REQUEST without reading the store.
C24_BodiesByHash ==
    ReturnedBodiesByHash =>
        IF Len(returned.hashes) <= 1024
        THEN /\ returned.result.err = ""
             /\ returned.result.bodies # None
             /\ Len(returned.result.bodies[1]) = Len(returned.hashes)
             /\ \A i \in 1..Len(returned.hashes) :
                    /\ returned.result.bodies[1][i] = StoredBody(returned.hashes[i])
                    /\ (returned.result.bodies[1][i] = None) <=>
                            (\A b \in db.blocks : HeaderHash(b.header) # returned.hashes[i])
        ELSE /\ returned.result = ResultError(ErrTooLargeRequest)
             /\ ~returned.readTx

\* a request with a hash the store does not have between two it has is
\* answered with a null between the two bodies
C24_Witness ==
    /\ ReturnedBodiesByHash
    /\ returned.hashes = <<BlockHash(BlkD2), HashUnknown, BlockHash(BlkC3)>>
    /\ returned.result.bodies =
            Some(<<Some([Transactions |-> <<1, 1, 1>>, Withdrawals |-> Some(<<5>>)]),
                   None,
                   Some([Transactions |-> <<>>, Withdrawals |-> Some(<<7>>)])>>)

(***************************************************************************)
(* Payload ids on the wire, on a proposer whose counter has reached values *)
(* that fill one, two, three and four bytes.                               *)
(***************************************************************************)
\* counter values at and on both sides of the byte boundaries
PayloadIdCounters == {0, 1, 254, 255, 256, 65534, 65535, 16777215, 16777216, 2147482648}

\* the parameters of build k of a proposer whose build requests alternate
\* between AttrX and AttrY
BuiltParameters(k) ==
    [buildParameters(FcPersisted, IF k % 2 = 1 THEN AttrX ELSE AttrY,
                     CapellaVersion, k - 1)
        EXCEPT !.PayloadId = k]

\* the registry after n such builds: the newest MaxBuilders builders
BuildersAfter(n) ==
    [k \in {j \in (n - MaxBuilders + 1)..n : j >= 1} |-> NewBlockBuilder(BuiltParameters(k))]

\* the ids asked for: the counter values and the two ids after each
WirePayloadIds == {convertPayloadId(c + d) : c \in PayloadIdCounters, d \in 0..2}

InitPayloadId ==
    /\ lock = NoCaller
    /\ requestList = <<>>
    /\ waiting = TRUE
    /\ processing = None
    /\ PayloadStatusCh = <<>>
    /\ call = [p \in Callers |-> IdleCall]
    /\ returned = IdleCall
    /\ calls = 0
    /\ badHeaders = <<>>
    /\ buildLog = <<>>
    /\ config = [TerminalTotalDifficulty |-> Some(TerminalTotalDifficulty)]
    /\ proposing = TRUE
    /\ db = InitStore
    /\ posSync = TRUE
    /\ posStatus = Idle
    /\ payloadId \in PayloadIdCounters
    /\ builders = BuildersAfter(payloadId)
    /\ lastParameters = IF payloadId = 0 THEN None ELSE Some(BuiltParameters(payloadId))

NextPayloadId ==
    \/ \E attributes \in {AttrX, AttrY} :
          ForkchoiceUpdated(PayloadCaller, FcPersisted, Some(attributes), CapellaVersion)
    \/ FCU_Lock(PayloadCaller)
    \/ FCU_Build(PayloadCaller)
    \/ \E id \in WirePayloadIds : GetPayload(PayloadCaller, id)
    \/ GP_Lock(PayloadCaller)
    \/ GP_Get(PayloadCaller)

SpecPayloadId == InitPayloadId /\ [][NextPayloadId]_vars

\* the value of 8 bytes read with the most significant byte first
ValueOfBytes(bytes) ==
    ((((((bytes[1] * 256 + bytes[2]) * 256 + bytes[3]) * 256 + bytes[4]) * 256
        + bytes[5]) * 256 + bytes[6]) * 256 + bytes[7]) * 256 + bytes[8]

\* C25: the payload id a forkchoiceUpdated returns is 8 bytes, the counter
\* in big-endian order; decoded as GetPayload decodes it, it is the counter
\* again, and the builder getPayload finds under it is the one that
\* forkchoiceUpdated created.
C25_PayloadIdRoundTrip ==
    /\ [](ReturnedForkchoiceUpdated /\ returned.result.payloadId # None =>
            LET bytes == returned.result.payloadId[1]
            IN  /\ Len(bytes) = 8
                /\ \A i \in 1..8 : bytes[i] \in 0..255
                /\ ValueOfBytes(bytes) = payloadId
                /\ BigEndianUint64(bytes) = payloadId
                /\ payloadId \in DOMAIN builders
                /\ Normalised(builders[payloadId].param) =
                        Normalised(buildParameters(returned.forkChoice,
                                                   returned.attributes[1],
                                                   returned.version, 0)))
    /\ [](\A i \in 1..Len(buildLog) :
            LET k == BigEndianUint64(buildLog[i].wire)
            IN  /\ Len(buildLog[i].wire) = 8
                /\ k \in DOMAIN builders =>
                        /\ builders[k].param.PayloadId = k
                        /\ Normalised(builders[k].param) = buildLog[i].norm)
    /\ [](ReturnedGetPayload /\ returned.result.block # None =>
            /\ returned.result.block[1].PayloadId = ValueOfBytes(returned.getId)
            /\ \A i \in 1..Len(buildLog) :
                    buildLog[i].wire = returned.getId =>
                        Normalised(returned.result.block[1]) = buildLog[i].norm)

\* the build that took the counter from 255 to 256 has been fetched with
\* the id forkchoiceUpdated returned for it
C25_Witness ==
    /\ ReturnedGetPayload
    /\ returned.getId = <<0, 0, 0, 0, 0, 0, 1, 0>>
    /\ Len(buildLog) = 1
    /\ buildLog[1].wire = returned.getId
    /\ buildLog[1].fresh
    /\ payloadId = 256
    /\ returned.result.block # None
    /\ Normalised(returned.result.block[1]) = buildLog[1].norm

(***************************************************************************)
(* The consensus-side client of forkchoiceUpdated                          *)
(***************************************************************************)
\* err.Error() of a call whose context ran out of time
errContextExceeded == "context deadline exceeded"
\* err.Error() of a call that failed for another reason
errConnectionRefused == "connection refused"

\* fmt.Errorf("execution Client RPC failed to retrieve ForkChoiceUpdate
\* response, err: %w", err)
wrapForkChoiceError(err) ==
    "execution Client RPC failed to retrieve ForkChoiceUpdate response, err: " \o err

\* checkPayloadStatus: the error it returns, "" for nil
checkPayloadStatus(payloadStatus) ==
    IF payloadStatus = None
    THEN "empty payloadStatus"
    ELSE IF payloadStatus[1].ValidationError # ""
    THEN payloadStatus[1].ValidationError
    ELSE IF /\ payloadStatus[1].Status # ValidStatus
            /\ payloadStatus[1].Status # AcceptedStatus
    THEN "status: " \o payloadStatus[1].Status
    ELSE ""

\* the statements of ForkChoiceUpdate after the call: err is the call's
\* error, payloadStatus is forkChoiceResp.PayloadStatus
forkChoiceUpdateError(err, payloadStatus) ==
    IF err # ""
    THEN wrapForkChoiceError(err)
    ELSE IF err # "" /\ err = errContextExceeded
    THEN ""
    ELSE IF err # ""
    THEN err
    ELSE checkPayloadStatus(payloadStatus)

\* ExecutionClientRpc.ForkChoiceUpdate: CallContext fails with err, or
\* decodes the response into forkChoiceResp
ExecutionClientRpcForkChoiceUpdate(p, finalized, head, err, response) ==
    /\ CanStart(p)
    /\ calls' = calls + 1
    /\ LET c == [IdleCall EXCEPT
                   !.op = "ClientForkChoiceUpdate", !.id = calls + 1,
                   !.client = "rpc",
                   !.forkChoice = [HeadHash |-> head, SafeBlockHash |-> head,
                                   FinalizedBlockHash |-> finalized],
                   !.callErr = err,
                   !.response = IF err = "" THEN response ELSE None]
       IN  Return(p, c, ResultError(forkChoiceUpdateError(err, c.response)))
    /\ UNCHANGED <<serverVars, db, badHeaders, importerVars, envVars, buildLog>>

\* ExecutionClientDirect.ForkChoiceUpdate: the response of ForkchoiceUpdatedV1
\* is dropped, forkChoiceResp stays as it was allocated
ExecutionClientDirectForkChoiceUpdate(p, finalized, head, err, response) ==
    /\ CanStart(p)
    /\ calls' = calls + 1
    /\ LET c == [IdleCall EXCEPT
                   !.op = "ClientForkChoiceUpdate", !.id = calls + 1,
                   !.client = "direct",
                   !.forkChoice = [HeadHash |-> head, SafeBlockHash |-> head,
                                   FinalizedBlockHash |-> finalized],
                   !.callErr = err,
                   !.response = IF err = "" THEN response ELSE None]
       IN  Return(p, c, ResultError(forkChoiceUpdateError(err, None)))
    /\ UNCHANGED <<serverVars, db, badHeaders, importerVars, envVars, buildLog>>

\* how the call to the execution layer can end
ClientCallErrors == {"", errContextExceeded, errConnectionRefused}

\* the payload statuses an execution layer answers with, and a response
\* that carries none
ClientResponses ==
    {None,
     Some(PayloadStatus(ValidStatus, Some(HashA1), "")),
     Some(PayloadStatus(AcceptedStatus, None, "")),
     Some(PayloadStatus(SyncingStatus, None, "")),
     Some(PayloadStatus(InvalidStatus, Some(HashT), "invalid block"))}

ClientHeads == {HashA1, HashA2}
ClientFinalized == {HashT, HashA1}

InitClient ==
    /\ InitServer
    /\ config = [TerminalTotalDifficulty |-> Some(TerminalTotalDifficulty)]
    /\ proposing = FALSE
    /\ db = InitStore
    /\ posSync = TRUE
    /\ posStatus = Idle

NextClient ==
    \/ \E p \in Callers, finalized \in ClientFinalized, head \in ClientHeads,
          err \in ClientCallErrors, response \in ClientResponses :
          ExecutionClientRpcForkChoiceUpdate(p, finalized, head, err, response)
    \/ \E p \in Callers, finalized \in ClientFinalized, head \in ClientHeads,
          err \in ClientCallErrors, response \in ClientResponses :
          ExecutionClientDirectForkChoiceUpdate(p, finalized, head, err, response)

SpecClient == InitClient /\ [][NextClient]_vars

(***************************************************************************)
(* Properties of the consensus-side client                                 *)
(***************************************************************************)
ReturnedClientForkChoiceUpdate ==
    returned.pc = "done" /\ returned.op = "ClientForkChoiceUpdate"

\* C26: a forkchoiceUpdated call that fails with "context deadline exceeded"
\* makes ForkChoiceUpdate, in the RPC and in the direct client, return nil.
C26_DeadlineExceededIsSuccess ==
    (ReturnedClientForkChoiceUpdate /\ returned.callErr = errContextExceeded)
        => returned.result.err = ""

\* C26, what the code does: the failure comes back wrapped, like any other
C26_DeadlineExceededIsWrapped ==
    (ReturnedClientForkChoiceUpdate /\ returned.callErr # "")
        => returned.result.err = wrapForkChoiceError(returned.callErr)

C26_Witness ==
    /\ ReturnedClientForkChoiceUpdate
    /\ returned.client = "direct"
    /\ returned.callErr = errContextExceeded
    /\ returned.result.err # ""

(***************************************************************************)
(* newPayload over envelopes with malformed transactions: each envelope    *)
(* states the hash of its own header, so the transaction checks are the    *)
(* first that can refuse it.                                               *)
(***************************************************************************)
\* envelope e carrying the transactions txs, with the block hash that goes
\* with them
WithTransactions(e, txs) ==
    LET f == [e EXCEPT !.Transactions = txs]
    IN  [f EXCEPT !.BlockHash = HeaderHash(newPayloadHeader(f, CapellaVersion))]

\* transaction lists with a typed transaction marshalled as an RLP string, or
\* with bytes that do not decode, in each position
MalformedTransactionLists == {<<2>>, <<3>>, <<1, 2>>, <<1, 3>>, <<3, 2>>}

\* A2 extends the head, W has a wrong block number, WC is a child of W
TransactionPayloads ==
    {EnvA2, EnvW, EnvWC}
    \cup {WithTransactions(e, txs) :
            e \in {EnvA2, EnvW, EnvWC}, txs \in MalformedTransactionLists}

NextTransactions ==
    \/ \E req \in TransactionPayloads : NewPayload(PayloadCaller, req, CapellaVersion)
    \/ NP_Probe(PayloadCaller)
    \/ NP_Lock(PayloadCaller)
    \/ NP_Enqueue(PayloadCaller)
    \/ NP_Recv(PayloadCaller)
    \/ ImporterTake
    \/ \E o \in ImporterOutcomes : ImporterReply(o)
    \/ ImporterWait

SpecTransactions == InitClassifier /\ [][NextTransactions]_vars

(***************************************************************************)
(* Properties of the transaction checks of newPayload.                     *)
(***************************************************************************)
\* some transaction of the list is a typed transaction marshalled as an RLP
\* string (2) or does not decode (3)
HasMalformedTransaction(txs) == \E i \in 1..Len(txs) : txs[i] \in {2, 3}

\* the newPayload admitted in this step states the hash of its header, has
\* the fork-gated fields its timestamp asks for, and a malformed transaction
StartsMalformedNewPayload ==
    /\ Started
    /\ StartedCall.op = "NewPayload"
    /\ GatedFieldsConsistent(StartedCall.payload, StartedCall.version)
    /\ HeaderHash(newPayloadHeader(StartedCall.payload, StartedCall.version))
          = StartedCall.payload.BlockHash
    /\ HasMalformedTransaction(StartedCall.payload.Transactions)

\* C27: a newPayload whose block hash is right and whose transactions hold a
\* typed transaction marshalled as an RLP string, or one that does not decode,
\* returns the status INVALID with a validation error as a result, not as an
\* error; the classifier does not run (it would answer these requests from
\* the bad-header memory, record them in it, or pass them on), the bad-header
\* memory is left as it was and nothing is enqueued.
C27_MalformedTransactions ==
    [][StartsMalformedNewPayload
        => /\ returned'.pc = "done"
           /\ returned'.id = calls'
           /\ returned'.result.err = ""
           /\ returned'.result.status.Status = InvalidStatus
           /\ returned'.result.status.ValidationError =
                  (IF \E i \in 1..Len(StartedCall.payload.Transactions) :
                         StartedCall.payload.Transactions[i] = 2
                   THEN "typed txn marshalled as RLP string"
                   ELSE "transaction decode error")
           /\ returned'.result.status.LatestValidHash = None
           /\ badHeaders' = badHeaders
           /\ UNCHANGED importerVars]_vars

\* a list that does not decode, on a child of a block in the bad-header
\* memory, has been refused while the importer was free to take it
C27_Witness ==
    /\ ReturnedNewPayload
    /\ returned.payload = WithTransactions(EnvWC, <<1, 3>>)
    /\ returned.result.status.Status = InvalidStatus
    /\ returned.result.status.ValidationError = "transaction decode error"
    /\ HashW \in DOMAIN badHeaders
    /\ returned.payload.BlockHash \notin DOMAIN badHeaders
    /\ posSync /\ waiting /\ requestList = <<>>

\* the same for a typed transaction marshalled as an RLP string
C27_WitnessRlpString ==
    /\ ReturnedNewPayload
    /\ returned.payload = WithTransactions(EnvA2, <<1, 2>>)
    /\ returned.result.status.ValidationError = "typed txn marshalled as RLP string"
    /\ posSync /\ waiting /\ requestList = <<>>

(***************************************************************************)
(* Properties of the busy probe.                                           *)
(***************************************************************************)
\* a request is appended to the importer's queue in this step
Enqueues == Len(requestList') > Len(requestList)

\* caller p runs the busy probe in this step
Probes(p) ==
    /\ call[p].pc \in {"np_probe", "fcu_probe"}
    /\ call'[p] # call[p]

\* no request is in the importer's hands
ImporterHoldsNothing ==
    requestList = <<>> /\ processing = None /\ PayloadStatusCh = <<>>

C28_ProbeSeesEnqueued ==
    [][\A p \in Callers :
          (Probes(p) /\ call[p].op = "NewPayload" /\ ~ImporterHoldsNothing)
          => (returned'.pc = "done" /\ returned'.id = call[p].id
              /\ returned'.result.status.Status = SyncingStatus)]_vars

C30_RegistryConsistency ==
    lock = NoCaller
    => /\ \A k \in DOMAIN builders : 1 <= k /\ k <= payloadId
       /\ payloadId > 0
          => /\ payloadId \in DOMAIN builders
             /\ lastParameters # None
             /\ lastParameters[1].PayloadId = payloadId
       /\ \A k \in DOMAIN builders : builders[k].param.PayloadId = k

\* builders have been evicted, the newest one is in the map, the mutex is free
C30_Witness ==
    /\ lock = NoCaller
    /\ payloadId = MaxBuilders + 1
    /\ 1 \notin DOMAIN builders
    /\ payloadId \in DOMAIN builders
    /\ builders[payloadId].param = lastParameters[1]
    /\ returned.pc = "done" /\ returned.result.payloadId = Some(convertPayloadId(payloadId))

(***************************************************************************)
(* Progress: the concurrent server on a node that may or may not propose,  *)
(* with callers that keep running, a mutex that serves every waiter, and   *)
(* an importer that takes every request, answers it and returns to         *)
(* waiting.                                                                *)
(***************************************************************************)
InitLive ==
    /\ InitServer
    /\ config = [TerminalTotalDifficulty |-> Some(TerminalTotalDifficulty)]
    /\ proposing \in BOOLEAN
    /\ db = InitStore
    /\ posSync = TRUE
    /\ posStatus = Idle

\* the steps of a handler that wait for nothing but the scheduler, the
\* importer's reply once it is on the channel, or builder.Stop()
CallerStep(p) ==
    \/ NP_Probe(p) \/ NP_Enqueue(p) \/ NP_Recv(p)
    \/ FCU_Probe(p) \/ FCU_Enqueue(p) \/ FCU_Recv(p) \/ FCU_Build(p)
    \/ GP_Get(p)

\* s.lock.Lock() in one of the three handlers
LockStep(p) == NP_Lock(p) \/ FCU_Lock(p) \/ GP_Lock(p)

\* handlers run on goroutines that keep being scheduled; sync.Mutex hands the
\* mutex to a waiter that has waited long (starvation mode); the importer
\* takes, answers and returns to waiting, as the claim assumes
Fairness ==
    /\ \A p \in Callers : WF_vars(CallerStep(p))
    /\ \A p \in Callers : SF_vars(LockStep(p))
    /\ WF_vars(ImporterTake)
    /\ WF_vars(\E o \in ImporterOutcomes : ImporterReply(o))
    /\ WF_vars(ImporterWait)

SpecLive == InitLive /\ [][Next]_vars /\ Fairness

(***************************************************************************)
(* Properties of progress.                                                 *)
(***************************************************************************)
\* caller p waits for the importer's reply
AwaitsReply(p) == call[p].pc \in {"np_recv", "fcu_recv"}

\* a getPayload or forkchoiceUpdated has returned
ReturnedGetPayloadOrForkchoice ==
    returned.pc = "done" /\ returned.op \in {"GetPayload", "ForkchoiceUpdated"}

\* C29 as stated, its last clause: while a caller waits for its importer
\* reply, no getPayload and no forkchoiceUpdated returns.
C29_OthersStayBlocked ==
    (\E p \in Callers : AwaitsReply(p)) => ~ReturnedGetPayloadOrForkchoice

\* C29: with an importer that answers every enqueued request and builders
\* whose Stop() returns, every call returns and the mutex is freed again; a
\* caller waiting for its importer reply holds the mutex until it takes the
\* reply, no step of another caller releases it, and meanwhile every other
\* forkchoiceUpdated and every getPayload on a proposer stays in front of the
\* mutex: the only getPayload that returns meanwhile is the one a node with
\* the proposer disabled refuses before it asks for the mutex.
C29_Progress ==
    /\ \A p \in Callers : (call[p].pc # "idle") ~> (call[p].pc = "idle")
    /\ (lock # NoCaller) ~> (lock = NoCaller)
    /\ [](\A p \in Callers : AwaitsReply(p) => lock = p)
    /\ [][\A p \in Callers :
            (AwaitsReply(p) /\ ~TakesReply(p))
            => /\ lock' = p
               /\ call'[p] = call[p]]_vars
    /\ [](\A p, q \in Callers :
            (AwaitsReply(p) /\ q # p
             /\ call[q].op \in {"GetPayload", "ForkchoiceUpdated"})
            => call[q].pc \in {"gp_lock", "fcu_probe", "fcu_lock"})
    /\ []((ReturnedGetPayloadOrForkchoice /\ \E p \in Callers : AwaitsReply(p))
            => /\ returned.op = "GetPayload"
               /\ ~proposing
               /\ returned.result = ResultError(ErrNotProposer))

\* a getPayload and a forkchoiceUpdated stand in front of the mutex while a
\* newPayload waits for the importer, which has taken its request
C29_Witness ==
    /\ NumCallers >= 2
    /\ \E p, q \in Callers :
          /\ call[p].pc = "np_recv" /\ lock = p
          /\ call[q].pc \in {"gp_lock", "fcu_lock"}
          /\ processing # None /\ processing[1].id = call[p].id
    /\ proposing

(***************************************************************************)
(* Every handler that can touch the registry, one call after another: the  *)
(* calls of the registry specification, a forkchoiceUpdated whose head is  *)
(* canonical but not the head of the chain, one whose attributes fail the  *)
(* withdrawals check, and the payload-body readers.                        *)
(***************************************************************************)
\* attributes after Shanghai that carry no withdrawals
AttrNoWithdrawals == Attributes(20, 1, None)

FrameForkchoiceCalls ==
    RegistryForkchoiceCalls
    \cup {<<FcPersisted, Some(AttrNoWithdrawals)>>,
          <<ForkChoice(HashT, HashT, HashT), Some(AttrX)>>}

InitFrame ==
    /\ lock = NoCaller
    /\ requestList = <<>>
    /\ waiting = TRUE
    /\ processing = None
    /\ PayloadStatusCh = <<>>
    /\ call = [p \in Callers |-> IdleCall]
    /\ returned = IdleCall
    /\ calls = 0
    /\ badHeaders = <<>>
    /\ config = [TerminalTotalDifficulty |-> Some(TerminalTotalDifficulty)]
    /\ proposing \in BOOLEAN
    /\ db = InitStore @@ [blocks |-> {}]
    /\ posSync = TRUE
    /\ posStatus = Idle
    /\ \/ /\ payloadId = 0
          /\ lastParameters = None
          /\ builders = <<>>
          /\ buildLog = <<>>
       \/ /\ proposing
          /\ payloadId = nextPayloadId(0)
          /\ lastParameters = Some(FirstParameters)
          /\ builders = [k \in {nextPayloadId(0)} |-> NewBlockBuilder(FirstParameters)]
          /\ buildLog = <<[norm |-> Normalised(FirstParameters),
                           wire |-> convertPayloadId(nextPayloadId(0)),
                           fresh |-> TRUE]>>

NextFrame ==
    \/ NewPayload(PayloadCaller, EnvA2, CapellaVersion)
    \/ NP_Probe(PayloadCaller)
    \/ NP_Lock(PayloadCaller)
    \/ NP_Enqueue(PayloadCaller)
    \/ NP_Recv(PayloadCaller)
    \/ \E fcu \in FrameForkchoiceCalls :
          ForkchoiceUpdated(PayloadCaller, fcu[1], fcu[2], CapellaVersion)
    \/ FCU_Probe(PayloadCaller)
    \/ FCU_Lock(PayloadCaller)
    \/ FCU_Enqueue(PayloadCaller)
    \/ FCU_Recv(PayloadCaller)
    \/ FCU_Build(PayloadCaller)
    \/ \E id \in RegistryPayloadIds : GetPayload(PayloadCaller, id)
    \/ GP_Lock(PayloadCaller)
    \/ GP_Get(PayloadCaller)
    \/ \E start \in {0, 1}, count \in {1, 2} :
          GetPayloadBodiesByRangeV1(PayloadCaller, start, count)
    \/ GetPayloadBodiesByHashV1(PayloadCaller, <<HashA1, HashUnknown>>)
    \/ ImporterTake
    \/ \E o \in ImporterOutcomes : ImporterReply(o)
    \/ ImporterWait

SpecFrame == InitFrame /\ [][NextFrame]_vars

(***************************************************************************)
(* The frame of the registry.                                              *)
(***************************************************************************)
\* the builder map: which builder, made from which parameters, is under
\* which payload id
BuilderMap(b) == [k \in DOMAIN b |-> b[k].param]

\* the builder map, the counter or lastParameters change in this step
RegistryChanges ==
    \/ BuilderMap(builders') # BuilderMap(builders)
    \/ payloadId' # payloadId
    \/ lastParameters' # lastParameters

\* a forkchoiceUpdated returns in this step with a payload id it has just
\* allocated
ReturnsNewPayloadId ==
    /\ ReturnsNow
    /\ returned'.op = "ForkchoiceUpdated"
    /\ returned'.result.err = ""
    /\ payloadId' = payloadId + 1
    /\ returned'.result.payloadId = Some(convertPayloadId(payloadId'))

\* C31: the builder map, the payload-id counter and lastParameters change
\* only in the step in which a forkchoiceUpdated returns a newly allocated
\* payload id; every step of newPayload, getPayload, the payload-body readers
\* and the importer, and every forkchoiceUpdated that returns an error, no
\* payload id or the id of a duplicate request, leaves the three unchanged.
C31_RegistryFrame ==
    /\ [][RegistryChanges => ReturnsNewPayloadId]_vars
    /\ [][(/\ ReturnsNow
           /\ \/ returned'.op # "ForkchoiceUpdated"
              \/ returned'.result.err # ""
              \/ returned'.result.payloadId = None
              \/ returned'.result.payloadId = Some(convertPayloadId(payloadId)))
          => ~RegistryChanges]_vars

\* a getPayload has stopped a builder, and the registry holds what the two
\* builds before it left
C31_Witness ==
    /\ returned.pc = "done" /\ returned.op = "GetPayload"
    /\ returned.result.block # None
    /\ payloadId = 2
    /\ \E k \in DOMAIN builders : builders[k].state = "Stopped"
    /\ lastParameters # None /\ lastParameters[1].PayloadId = 2

(***************************************************************************)
(* The order of the forkchoice part and the attribute checks.              *)
(***************************************************************************)
\* the errors of the attribute checks of forkchoiceUpdated
AttributeErrors == {ErrNotProposer, ErrInvalidPayloadAttributes, ErrInvalidParams}

\* the returned call is a forkchoiceUpdated refused by an attribute check
ReturnedAttributeError ==
    /\ ReturnedForkchoiceUpdated
    /\ returned.result.err \in AttributeErrors

\* caller p takes a step in this step
Steps(p) == call'[p] # call[p]

\* C32: a forkchoiceUpdated the classifier does not resolve goes from the
\* mutex to the enqueue of its forkchoice and to the wait for the reply,
\* whatever its attributes are; it returns from nowhere before the reply; and
\* a call refused with the not-a-proposer error, INVALID_PAYLOAD_ATTRIBUTES or
\* INVALID_PARAMS carries attributes and a VALID status that is the
\* importer's reply to its own request unless the classifier had resolved it.
C32_ForkchoiceBeforeAttributes ==
    /\ [][\A p \in Callers :
            (call[p].pc = "fcu_lock" /\ call[p].status = None /\ Steps(p))
            => call'[p].pc = "fcu_enqueue"]_vars
    /\ [][\A p \in Callers :
            (call[p].pc = "fcu_enqueue" /\ Steps(p))
            => /\ call'[p].pc = "fcu_recv"
               /\ requestList' = Append(requestList,
                      [id |-> call[p].id, kind |-> "forkchoice", header |-> None,
                       forkChoice |-> call[p].forkChoice])]_vars
    /\ [][\A p \in Callers :
            (call[p].pc = "fcu_recv" /\ Steps(p)) => TakesReply(p)]_vars
    /\ [][(ReturnsNow /\ returned'.op = "ForkchoiceUpdated"
           /\ returned'.result.err \in AttributeErrors)
          => \E p \in Callers :
                /\ call[p].pc = "fcu_build"
                /\ call[p].id = returned'.id
                /\ NotEnqueued(p)]_vars
    /\ [](ReturnedAttributeError
            => /\ returned.attributes # None
               /\ returned.status # None
               /\ returned.status[1].Status = ValidStatus
               /\ returned.replyFor \in {None, Some(returned.id)})

\* the forkchoice of a request with attributes that fail the timestamp test
\* has been submitted, the importer has made it the persisted forkchoice and
\* answered VALID, and the call has failed
C32_Witness ==
    /\ ReturnedForkchoiceUpdated
    /\ returned.result.err = ErrInvalidPayloadAttributes
    /\ returned.replyFor = Some(returned.id)
    /\ returned.status[1].Status = ValidStatus
    /\ returned.forkChoice = FcNew
    /\ db.fcSafe = FcNew.SafeBlockHash

(***************************************************************************)
(* The lifecycle of a builder.                                             *)
(***************************************************************************)
\* a getPayload for the payload id k returns a block in this step
GetPayloadStops(k) ==
    /\ ReturnsNow
    /\ returned'.op = "GetPayload"
    /\ BigEndianUint64(returned'.getId) = k
    /\ returned'.result.block # None

\* C33: a builder enters the map only in the step in which a
\* forkchoiceUpdated returns a newly allocated payload id, under that id and
\* in the state Building; the state of a builder in the map changes only in
\* the step in which a getPayload for its own id returns, and only to
\* Stopped; a Stopped builder stays Stopped; no step of forkchoiceUpdated, a
\* duplicate build request included, and no getPayload for another id changes
\* the state of a builder that stays in the map.
C33_BuilderLifecycle ==
    /\ [][\A k \in DOMAIN builders' \ DOMAIN builders :
            /\ ReturnsNewPayloadId
            /\ k = payloadId'
            /\ builders'[k].state = "Building"]_vars
    /\ [][\A k \in DOMAIN builders' \cap DOMAIN builders :
            /\ builders'[k].param = builders[k].param
            /\ builders'[k].state # builders[k].state
               => (GetPayloadStops(k) /\ builders'[k].state = "Stopped")
            /\ builders[k].state = "Stopped" => builders'[k].state = "Stopped"]_vars
    /\ [][(ReturnsNow /\ returned'.op # "GetPayload")
          => \A k \in DOMAIN builders' \cap DOMAIN builders :
                builders'[k].state = builders[k].state]_vars
    /\ [](\A k \in DOMAIN builders : builders[k].state \in {"Building", "Stopped"})

\* a duplicate build request has returned the id of a builder that a
\* getPayload had stopped, next to a builder that is still building
C33_Witness ==
    /\ ReturnedForkchoiceUpdated
    /\ returned.result.payloadId = Some(convertPayloadId(payloadId))
    /\ Len(buildLog) > 0 /\ ~buildLog[Len(buildLog)].fresh
    /\ payloadId \in DOMAIN builders
    /\ builders[payloadId].state = "Stopped"
    /\ \E k \in DOMAIN builders : builders[k].state = "Building"

(***************************************************************************)
(* getPayload asked twice for the same payload id.                         *)
(***************************************************************************)
\* caller p is at the lookup of getPayload and the builder of its payload id
\* is in the map and has been stopped by an earlier getPayload
FindsStopped(p) ==
    /\ call[p].pc = "gp_get"
    /\ BigEndianUint64(call[p].getId) \in DOMAIN builders
    /\ builders[BigEndianUint64(call[p].getId)].state = "Stopped"

\* C34 as stated: after a getPayload has stopped the builder of a payload id,
\* a later getPayload for the same id no longer obtains it.
C34_LaterGetPayloadFails ==
    [][\A p \in Callers :
          (FindsStopped(p) /\ Steps(p)) => returned'.result.block = None]_vars

\* C34: a getPayload that returns a block leaves the builder in the map, in
\* the state Stopped, which it enters once and never leaves; a later
\* getPayload for the same id finds the same builder as long as no later
\* build has evicted it, and returns the block of that builder again.
C34_StoppedBuilderStays ==
    /\ [][\A k \in DOMAIN builders :
            GetPayloadStops(k)
            => /\ k \in DOMAIN builders'
               /\ builders'[k] = [builders[k] EXCEPT !.state = "Stopped"]
               /\ DOMAIN builders' = DOMAIN builders
               /\ returned'.result = ResultBlock(builders[k].param)]_vars
    /\ [][\A p \in Callers :
            (FindsStopped(p) /\ Steps(p))
            => /\ returned'.pc = "done"
               /\ returned'.id = call[p].id
               /\ returned'.result =
                    ResultBlock(builders[BigEndianUint64(call[p].getId)].param)
               /\ builders' = builders]_vars
    /\ [][\A k \in DOMAIN builders :
            (builders[k].state = "Stopped" /\ k \in DOMAIN builders')
            => builders'[k] = builders[k]]_vars

\* the second getPayload for a payload id has returned the block of the
\* builder the first one stopped
C34_Witness ==
    /\ ReturnedGetPayload
    /\ returned.found = "Stopped"
    /\ returned.result.block # None
    /\ BigEndianUint64(returned.getId) \in DOMAIN builders
    /\ returned.result.block[1] = builders[BigEndianUint64(returned.getId)].param

(***************************************************************************)
(* The consensus-side clients: NewPayload and ForkChoiceUpdate of          *)
(* ExecutionClientRpc and of ExecutionClientDirect, over the same blocks   *)
(* and the same answers of the execution layer.                            *)
(***************************************************************************)
\* a version the switch on payload.Version() has no case for
OtherVersion == 1

\* cltypes.Eth1Block, the fields the request is built from
Eth1Block(version, e, dataGasUsed, excessDataGas) ==
    [Version |-> version, ParentHash |-> e.ParentHash,
     BlockNumber |-> e.BlockNumber, Time |-> e.Timestamp,
     StateRoot |-> e.StateRoot, Transactions |-> e.Transactions,
     Withdrawals |-> e.Withdrawals, DataGasUsed |-> dataGasUsed,
     ExcessDataGas |-> excessDataGas, BlockHash |-> e.BlockHash]

\* request := engine_types.ExecutionPayload{...}: the fields of the block,
\* the data gas fields from Deneb on
executionPayloadRequest(payload) ==
    Envelope(payload.ParentHash, payload.BlockNumber, payload.Time,
             payload.StateRoot, payload.Transactions, payload.Withdrawals,
             IF payload.Version >= DenebVersion
             THEN Some(payload.DataGasUsed) ELSE None,
             IF payload.Version >= DenebVersion
             THEN Some(payload.ExcessDataGas) ELSE None,
             payload.BlockHash)

\* the versions the switch on payload.Version() has a case for
hasEngineMethod(version) ==
    version \in {BellatrixVersion, CapellaVersion, DenebVersion}

errInvalidPayloadVersion == "invalid payload version"

\* fmt.Errorf("execution Client RPC failed to retrieve the NewPayload status
\* response, err: %w", err)
wrapNewPayloadError(err) ==
    "execution Client RPC failed to retrieve the NewPayload status response, err: "
        \o err

\* the statements of NewPayload after a call that returned payloadStatus
newPayloadOutcome(payloadStatus) ==
    [invalid |-> \/ payloadStatus[1].Status = InvalidStatus
                 \/ payloadStatus[1].Status = InvalidBlockHashStatus,
     err |-> checkPayloadStatus(payloadStatus)]

\* ExecutionClientRpc.NewPayload: (invalid, err) for the block payload, a
\* call that fails with callErr or answers payloadStatus
rpcNewPayload(payload, callErr, payloadStatus) ==
    IF payload = None
    THEN [invalid |-> FALSE, err |-> ""]
    ELSE IF ~hasEngineMethod(payload[1].Version)
    THEN [invalid |-> FALSE, err |-> errInvalidPayloadVersion]
    ELSE IF callErr # ""
    THEN [invalid |-> FALSE, err |-> wrapNewPayloadError(callErr)]
    ELSE newPayloadOutcome(payloadStatus)

\* ExecutionClientDirect.NewPayload: the default case of the switch sets
\* err, which is then wrapped like an error of the call
directNewPayload(payload, callErr, payloadStatus) ==
    IF payload = None
    THEN [invalid |-> FALSE, err |-> ""]
    ELSE LET err == IF hasEngineMethod(payload[1].Version)
                    THEN callErr ELSE errInvalidPayloadVersion
         IN  IF err # ""
             THEN [invalid |-> FALSE, err |-> wrapNewPayloadError(err)]
             ELSE newPayloadOutcome(payloadStatus)

\* the call record of a client NewPayload: the request it sends, if it gets
\* that far, and what came back
ClientNewPayloadCall(client, payload, callErr, payloadStatus) ==
    LET sends == payload # None /\ hasEngineMethod(payload[1].Version)
    IN  [IdleCall EXCEPT
            !.op = "ClientNewPayload", !.id = calls + 1, !.client = client,
            !.eth1Block = payload,
            !.version = IF sends THEN payload[1].Version ELSE BellatrixVersion,
            !.payload = IF sends THEN executionPayloadRequest(payload[1])
                        ELSE NoPayload,
            !.callErr = IF sends THEN callErr ELSE "",
            !.response = IF sends /\ callErr = "" THEN payloadStatus ELSE None]

ExecutionClientRpcNewPayload(p, payload, callErr, payloadStatus) ==
    /\ CanStart(p)
    /\ calls' = calls + 1
    /\ LET c == ClientNewPayloadCall("rpc", payload, callErr, payloadStatus)
           out == rpcNewPayload(payload, c.callErr, c.response)
       IN  Return(p, [c EXCEPT !.invalid = out.invalid], ResultError(out.err))
    /\ UNCHANGED <<serverVars, db, badHeaders, importerVars, envVars, buildLog>>

ExecutionClientDirectNewPayload(p, payload, callErr, payloadStatus) ==
    /\ CanStart(p)
    /\ calls' = calls + 1
    /\ LET c == ClientNewPayloadCall("direct", payload, callErr, payloadStatus)
           out == directNewPayload(payload, c.callErr, c.response)
       IN  Return(p, [c EXCEPT !.invalid = out.invalid], ResultError(out.err))
    /\ UNCHANGED <<serverVars, db, badHeaders, importerVars, envVars, buildLog>>

\* the blocks handed to NewPayload: none, and one of each version
ClientBlocks ==
    {None,
     Some(Eth1Block(OtherVersion, EnvT, 0, 0)),
     Some(Eth1Block(BellatrixVersion, EnvA1, 0, 0)),
     Some(Eth1Block(CapellaVersion, EnvW, 0, 0)),
     Some(Eth1Block(DenebVersion, EnvW, 1, 2))}

\* the statuses newPayload answers with
ClientPayloadStatuses ==
    {Some(PayloadStatus(ValidStatus, Some(HashA1), "")),
     Some(PayloadStatus(AcceptedStatus, None, "")),
     Some(PayloadStatus(SyncingStatus, None, "")),
     Some(PayloadStatus(InvalidStatus, Some(HashT), "invalid block")),
     Some(PayloadStatus(InvalidBlockHashStatus, None, ""))}

\* the statuses forkchoiceUpdated answers with
ClientForkChoiceStatuses == ClientResponses \ {None}

NextClients ==
    \/ \E p \in Callers, payload \in ClientBlocks, err \in ClientCallErrors,
          payloadStatus \in ClientPayloadStatuses :
          ExecutionClientRpcNewPayload(p, payload, err, payloadStatus)
    \/ \E p \in Callers, payload \in ClientBlocks, err \in ClientCallErrors,
          payloadStatus \in ClientPayloadStatuses :
          ExecutionClientDirectNewPayload(p, payload, err, payloadStatus)
    \/ \E p \in Callers, finalized \in ClientFinalized, head \in ClientHeads,
          err \in ClientCallErrors, response \in ClientForkChoiceStatuses :
          ExecutionClientRpcForkChoiceUpdate(p, finalized, head, err, response)
    \/ \E p \in Callers, finalized \in ClientFinalized, head \in ClientHeads,
          err \in ClientCallErrors, response \in ClientForkChoiceStatuses :
          ExecutionClientDirectForkChoiceUpdate(p, finalized, head, err, response)

SpecClients == InitClient /\ [][NextClients]_vars

ReturnedClientNewPayload ==
    returned.pc = "done" /\ returned.op = "ClientNewPayload"

\* the execution layer answered the call with a payload status
EngineAnswered == returned.response # None

\* the status answered is VALID or ACCEPTED and carries no validation error
AnsweredValidOrAccepted ==
    /\ EngineAnswered
    /\ returned.response[1].Status \in {ValidStatus, AcceptedStatus}
    /\ returned.response[1].ValidationError = ""

\* C35: for the same block or forkchoice input and the same answer of the
\* execution layer, ExecutionClientDirect and ExecutionClientRpc return the
\* same outcome; NewPayload reports invalid = true exactly when the status is
\* INVALID or INVALID_BLOCK_HASH and a nil error exactly when the status is
\* VALID or ACCEPTED with no validation error; ForkChoiceUpdate returns nil
\* exactly when the status the engine returned is VALID or ACCEPTED with no
\* validation error.
C35_ClientsInterchangeable ==
    /\ (ReturnedClientNewPayload /\ EngineAnswered) =>
            /\ rpcNewPayload(returned.eth1Block, returned.callErr,
                             returned.response)
                 = directNewPayload(returned.eth1Block, returned.callErr,
                                    returned.response)
            /\ returned.invalid
                 <=> returned.response[1].Status
                        \in {InvalidStatus, InvalidBlockHashStatus}
            /\ returned.result.err = "" <=> AnsweredValidOrAccepted
    /\ (ReturnedClientForkChoiceUpdate /\ EngineAnswered) =>
            /\ forkChoiceUpdateError(returned.callErr, returned.response)
                 = forkChoiceUpdateError(returned.callErr, None)
            /\ returned.result.err = "" <=> AnsweredValidOrAccepted

\* C35, what the code does for NewPayload: whenever the execution layer
\* answers, both clients return the same (invalid, err), as the claim says
C35_NewPayloadAgrees ==
    (ReturnedClientNewPayload /\ EngineAnswered) =>
        /\ rpcNewPayload(returned.eth1Block, returned.callErr, returned.response)
             = directNewPayload(returned.eth1Block, returned.callErr,
                                returned.response)
        /\ returned.invalid
             <=> returned.response[1].Status
                    \in {InvalidStatus, InvalidBlockHashStatus}
        /\ returned.result.err = "" <=> AnsweredValidOrAccepted

\* C35, what the code does for ForkChoiceUpdate: the RPC client returns nil
\* exactly for VALID or ACCEPTED without a validation error, the direct
\* client returns an error whatever the engine answered
C35_DirectForkChoiceUpdateFails ==
    ReturnedClientForkChoiceUpdate =>
        /\ returned.client = "rpc" /\ EngineAnswered =>
                (returned.result.err = "" <=> AnsweredValidOrAccepted)
        /\ returned.client = "direct" => returned.result.err # ""
        /\ returned.client = "direct" /\ EngineAnswered =>
                returned.result.err = "empty payloadStatus"

\* the direct client has returned an error for a forkchoice update the
\* engine answered with VALID
C35_Witness ==
    /\ ReturnedClientForkChoiceUpdate
    /\ returned.client = "direct"
    /\ AnsweredValidOrAccepted
    /\ returned.response[1].Status = ValidStatus
    /\ returned.result.err = "empty payloadStatus"

====
